---------------------------- MODULE Spec2Model ----------------------------
(***************************************************************************)
(* Inventory and sales-reservation manager (Flask + SQLAlchemy + SQLite).  *)
(* The model covers the tables Usuario / Producto / Pedido, the session    *)
(* cart, the wall clock, and the request handlers of main.py that read or  *)
(* write them.  A handler is an operator from the tables to the tables it  *)
(* commits plus the response it gives; the actions apply the handlers.     *)
(***************************************************************************)
EXTENDS Integers, Sequences, FiniteSets, TLC

\* ---------------------------------------------------------------- bounds
MaxPedidos == 2            \* rows of the pedido table
MaxReloj == 2              \* the clock runs 0..MaxReloj, in units of 48 hours
MaxStock == 2              \* largest quantity typed into a product form
Escala == 10000            \* an amount of money is held in units of 1/Escala

\* ------------------------------------------------------------- constants
EXPIRACION_HORAS == 48     \* timedelta(hours=48)
IVA_DEFECTO == 21          \* IVA_DEFECTO = 21.0, a percentage
DESCUENTO_APLICADO_DEFECTO == 0    \* Pedido.descuento_aplicado, default=0.0
IVA_APLICADO_DEFECTO == 21         \* Pedido.iva_aplicado, default=21.0

UsuarioIds == {1, 2, 3}    \* 1: the initial admin, 2 and 3: registered clients
ProductoIds == {1, 2}      \* ids of the producto table
PedidoIds == 1..(MaxPedidos + 1)   \* ids a request may name, one of them unused

\* Users whose requests are modelled on the admin-only routes: the admin and
\* one client (every non-admin is turned away alike)
ActoresAdmin == {1, 2}

VARIABLES
    usuarios,      \* table usuario: id -> [rol, activo]
    productos,     \* table producto: id -> [precio_coste, precio_venta,
                   \*   cantidad_actual, stock_maximo, proveedor_id]
    pedidos,       \* table pedido: sequence of rows, id = index
    proveedores,   \* table proveedor: id -> [cif, descuento]
    carrito,       \* session['carrito'] of each user's session: set of lines
    reloj,         \* the wall clock, in units of 48 hours
    peticiones     \* the requests in flight at once: slot -> its progress

vars == <<usuarios, proveedores, productos, pedidos, carrito, reloj, peticiones>>

\* ------------------------------------------------------------- helpers
\* int(text): the value, or a ValueError
int(s) ==
    CASE s = "-1" -> [ok |-> TRUE, v |-> -1]
      [] s = "0" -> [ok |-> TRUE, v |-> 0]
      [] s = "1" -> [ok |-> TRUE, v |-> 1]
      [] s = "2" -> [ok |-> TRUE, v |-> 2]
      [] s = "3" -> [ok |-> TRUE, v |-> 3]
      [] s = "4" -> [ok |-> TRUE, v |-> 4]
      [] OTHER -> [ok |-> FALSE, v |-> 0]

\* float(text) of a price, discount or tax field: the value, or a ValueError.
\* The texts posted are whole numbers.
float(s) ==
    CASE s = "-1" -> [ok |-> TRUE, v |-> -1]
      [] s = "0" -> [ok |-> TRUE, v |-> 0]
      [] s = "21.0" -> [ok |-> TRUE, v |-> IVA_DEFECTO]
      [] s = "10" -> [ok |-> TRUE, v |-> 10]
      [] s = "59" -> [ok |-> TRUE, v |-> 59]
      [] s = "100" -> [ok |-> TRUE, v |-> 100]
      [] s = "121" -> [ok |-> TRUE, v |-> 121]
      [] s = "101" -> [ok |-> TRUE, v |-> 101]
      [] OTHER -> [ok |-> FALSE, v |-> 0]

\* The float v as an amount of money.  Amounts are held to four decimals,
\* two more than a cent, and a product or quotient of amounts drops what lies
\* beyond them: where the floating-point result of the code is not the exact
\* one, neither is the result here.
importe(v) == v * Escala

\* A product row with no supplier: proveedor_id is None
SinProveedor == 0

\* precio * (1 + iva / 100)
con_iva(precio, iva) == (precio * (100 + iva)) \div 100

\* precio / (1 + IVA_DEFECTO / 100)
sin_iva_defecto(precio) == (precio * 100) \div (100 + IVA_DEFECTO)

\* precio * (1 - descuento / 100)
con_descuento(precio, descuento) == (precio * (100 - descuento)) \div 100

\* request.form.get(campo, defecto)
form_get(s, defecto) == IF s = "" THEN defecto ELSE s

\* datetime.now(timezone.utc), in hours
now(d) == d * EXPIRACION_HORAS

\* A row of the pedido table
Pedido(tipo, cantidad, precio_unidad_coste, precio_unidad_venta, total_venta, descuento_aplicado, iva_aplicado, usuario_id, producto_id, fecha, estado) ==
    [tipo |-> tipo, cantidad |-> cantidad,
     precio_unidad_coste |-> precio_unidad_coste,
     precio_unidad_venta |-> precio_unidad_venta,
     total_venta |-> total_venta,
     descuento_aplicado |-> descuento_aplicado, iva_aplicado |-> iva_aplicado,
     usuario_id |-> usuario_id,
     producto_id |-> producto_id, fecha |-> fecha, estado |-> estado]

\* Column default of Pedido.estado, used when the constructor gives none
ESTADO_DEFECTO == "pendiente"

\* The gate that lets every logged-in user through
admin_required_con_sesion(us, u) == u \in DOMAIN us

\* @admin_required (after @login_required): the session's user still has a
\* row, and its rol is admin
admin_required(us, u) == u \in DOMAIN us /\ us[u].rol = "admin"

RECURSIVE suma_cantidad(_, _)
\* sum of cantidad over the rows of peds whose ids are in ids
suma_cantidad(peds, ids) ==
    IF ids = {} THEN 0
    ELSE LET i == CHOOSE j \in ids : TRUE
         IN peds[i].cantidad + suma_cantidad(peds, ids \ {i})

RECURSIVE suma_total_venta(_, _)
\* sum(v.total_venta for v in ...) over the rows of peds whose ids are in ids
suma_total_venta(peds, ids) ==
    IF ids = {} THEN 0
    ELSE LET i == CHOOSE j \in ids : TRUE
         IN peds[i].total_venta + suma_total_venta(peds, ids \ {i})

RECURSIVE suma_costos(_, _)
\* sum(c.precio_unidad_coste * c.cantidad for c in ...)
suma_costos(peds, ids) ==
    IF ids = {} THEN 0
    ELSE LET i == CHOOSE j \in ids : TRUE
         IN peds[i].precio_unidad_coste * peds[i].cantidad
                + suma_costos(peds, ids \ {i})

\* ids of the pending sale rows of product pid
reservas_pendientes(peds, pid) ==
    {i \in 1..Len(peds) : /\ peds[i].producto_id = pid
                          /\ peds[i].estado = "pendiente"
                          /\ peds[i].tipo = "venta"}

\* ------------------------------------------------------------ handlers
\* The selection that takes a reservation at its 48th hour
expirados_desde_48(peds, d) ==
    {i \in 1..Len(peds) : /\ peds[i].estado = "pendiente"
                          /\ peds[i].tipo = "venta"
                          /\ peds[i].fecha <= now(d) - EXPIRACION_HORAS}

\* limpiar_reservas_expiradas: the rows it selects
expirados(peds, d) ==
    {i \in 1..Len(peds) : /\ peds[i].estado = "pendiente"
                          /\ peds[i].tipo = "venta"
                          /\ peds[i].fecha < now(d) - EXPIRACION_HORAS}

\* The sweep that cancels every stale row and returns the units of the first
limpiar_a_medias(prods, peds, d) ==
    LET ex == expirados(peds, d)
        primero == CHOOSE i \in ex : \A j \in ex : i <= j
    IN [productos |->
            IF ex = {} THEN prods
            ELSE [p \in DOMAIN prods |->
                     IF p = peds[primero].producto_id
                     THEN [prods[p] EXCEPT !.cantidad_actual =
                               @ + peds[primero].cantidad]
                     ELSE prods[p]],
        pedidos |->
            [i \in 1..Len(peds) |->
                IF i \in ex THEN [peds[i] EXCEPT !.estado = "cancelado"]
                ELSE peds[i]]]

\* The sweep with r.estado = 'cancelado' forgotten
limpiar_sin_cancelar(prods, peds, d) ==
    LET ex == expirados(peds, d)
    IN [productos |->
            [p \in DOMAIN prods |->
                [prods[p] EXCEPT !.cantidad_actual =
                    @ + suma_cantidad(peds, {i \in ex : peds[i].producto_id = p})]],
        pedidos |-> peds]

\* The sweep that finds nothing to do
limpiar_sin_efecto(prods, peds, d) ==
    [productos |-> prods, pedidos |-> peds]

\* limpiar_reservas_expiradas: stock returned, rows cancelled, one commit
limpiar_reservas_expiradas(prods, peds, d) ==
    LET ex == expirados(peds, d)
    IN [productos |->
            [p \in DOMAIN prods |->
                [prods[p] EXCEPT !.cantidad_actual =
                    @ + suma_cantidad(peds, {i \in ex : peds[i].producto_id = p})]],
        pedidos |->
            [i \in 1..Len(peds) |->
                IF i \in ex THEN [peds[i] EXCEPT !.estado = "cancelado"]
                ELSE peds[i]]]

\* The stock check made against the wrong column
stock_insuficiente_contra_maximo(prods, pid, cantidad_a_vender) ==
    prods[pid].stock_maximo < cantidad_a_vender

\* realizar_venta: the stock check
stock_insuficiente(prods, pid, cantidad_a_vender) ==
    prods[pid].cantidad_actual < cantidad_a_vender

\* realizar_venta: the query for the client an admin sells to
cliente_valido(us, cliente_id) ==
    /\ cliente_id \in DOMAIN us
    /\ us[cliente_id].rol = "cliente"
    /\ us[cliente_id].activo

\* The decrement of one unit whatever the quantity sold
restar_stock_unidad(prods, pid, cantidad_a_vender) ==
    [prods EXCEPT ![pid].cantidad_actual = @ - 1]

\* realizar_venta: producto.cantidad_actual -= cantidad_a_vender
restar_stock(prods, pid, cantidad_a_vender) ==
    [prods EXCEPT ![pid].cantidad_actual = @ - cantidad_a_vender]

\* The sale with the decrement committed before the client is validated
realizar_venta_commit_temprano(us, prods, peds, d, u, pid, f) ==
    LET cantidad == int(form_get(f.cantidad, "1"))
        descuento == float(form_get(f.descuento, "0"))
        descuento_cliente == IF descuento.v < 0 \/ descuento.v > 100
                             THEN 0 ELSE descuento.v
        iva == float(form_get(f.iva, "21.0"))
        iva_venta == IF iva.v < 0 \/ iva.v > 100 THEN IVA_DEFECTO ELSE iva.v
        precio_base == sin_iva_defecto(prods[pid].precio_venta)
        precio_con_nuevo_iva == con_iva(precio_base, iva_venta)
        precio_con_descuento == con_descuento(precio_con_nuevo_iva, descuento_cliente)
        total == precio_con_descuento * cantidad.v
        con_cliente == us[u].rol = "admin" /\ f.cliente_id # ""
        destino == IF con_cliente THEN int(f.cliente_id).v ELSE u
        sin_cambio(r) == [productos |-> prods, pedidos |-> peds, res |-> r]
    IN  IF pid \notin DOMAIN prods THEN sin_cambio("404")
        ELSE IF ~cantidad.ok THEN sin_cambio("500")
        ELSE IF stock_insuficiente(prods, pid, cantidad.v)
             THEN sin_cambio("stock_insuficiente")
        ELSE IF ~descuento.ok THEN sin_cambio("500")
        ELSE IF ~iva.ok THEN sin_cambio("500")
        ELSE IF con_cliente /\ ~int(f.cliente_id).ok THEN sin_cambio("500")
        ELSE IF con_cliente /\ ~cliente_valido(us, destino)
             THEN [productos |-> restar_stock(prods, pid, cantidad.v),
                   pedidos |-> peds, res |-> "cliente_no_valido"]
        ELSE [productos |-> restar_stock(prods, pid, cantidad.v),
              pedidos |->
                  Append(peds, Pedido("venta", cantidad.v, prods[pid].precio_coste,
                                      precio_con_nuevo_iva, total,
                                      descuento_cliente, iva_venta,
                                      destino, pid, now(d), "pendiente")),
              res |-> "ok"]

\* The sale that records the discount and the tax as they were posted
realizar_venta_sin_acotar(us, prods, peds, d, u, pid, f) ==
    LET cantidad == int(form_get(f.cantidad, "1"))
        descuento == float(form_get(f.descuento, "0"))
        descuento_cliente == descuento.v
        iva == float(form_get(f.iva, "21.0"))
        iva_venta == iva.v
        precio_base == sin_iva_defecto(prods[pid].precio_venta)
        precio_con_nuevo_iva == con_iva(precio_base, iva_venta)
        precio_con_descuento == con_descuento(precio_con_nuevo_iva, descuento_cliente)
        total == precio_con_descuento * cantidad.v
        con_cliente == us[u].rol = "admin" /\ f.cliente_id # ""
        destino == IF con_cliente THEN int(f.cliente_id).v ELSE u
        sin_cambio(r) == [productos |-> prods, pedidos |-> peds, res |-> r]
    IN  IF pid \notin DOMAIN prods THEN sin_cambio("404")
        ELSE IF ~cantidad.ok THEN sin_cambio("500")
        ELSE IF stock_insuficiente(prods, pid, cantidad.v)
             THEN sin_cambio("stock_insuficiente")
        ELSE IF ~descuento.ok THEN sin_cambio("500")
        ELSE IF ~iva.ok THEN sin_cambio("500")
        ELSE IF con_cliente /\ ~int(f.cliente_id).ok THEN sin_cambio("500")
        ELSE IF con_cliente /\ ~cliente_valido(us, destino)
             THEN sin_cambio("cliente_no_valido")
        ELSE [productos |-> restar_stock(prods, pid, cantidad.v),
              pedidos |->
                  Append(peds, Pedido("venta", cantidad.v, prods[pid].precio_coste,
                                      precio_con_nuevo_iva, total,
                                      descuento_cliente, iva_venta,
                                      destino, pid, now(d), "pendiente")),
              res |-> "ok"]

\* The sale in which any user may name the client it is for
realizar_venta_cliente_elige(us, prods, peds, d, u, pid, f) ==
    LET cantidad == int(form_get(f.cantidad, "1"))
        descuento == float(form_get(f.descuento, "0"))
        descuento_cliente == IF descuento.v < 0 \/ descuento.v > 100
                             THEN 0 ELSE descuento.v
        iva == float(form_get(f.iva, "21.0"))
        iva_venta == IF iva.v < 0 \/ iva.v > 100 THEN IVA_DEFECTO ELSE iva.v
        precio_base == sin_iva_defecto(prods[pid].precio_venta)
        precio_con_nuevo_iva == con_iva(precio_base, iva_venta)
        precio_con_descuento == con_descuento(precio_con_nuevo_iva, descuento_cliente)
        total == precio_con_descuento * cantidad.v
        con_cliente == f.cliente_id # ""
        destino == IF con_cliente THEN int(f.cliente_id).v ELSE u
        sin_cambio(r) == [productos |-> prods, pedidos |-> peds, res |-> r]
    IN  IF pid \notin DOMAIN prods THEN sin_cambio("404")
        ELSE IF ~cantidad.ok THEN sin_cambio("500")
        ELSE IF stock_insuficiente(prods, pid, cantidad.v)
             THEN sin_cambio("stock_insuficiente")
        ELSE IF ~descuento.ok THEN sin_cambio("500")
        ELSE IF ~iva.ok THEN sin_cambio("500")
        ELSE IF con_cliente /\ ~int(f.cliente_id).ok THEN sin_cambio("500")
        ELSE IF con_cliente /\ ~cliente_valido(us, destino)
             THEN sin_cambio("cliente_no_valido")
        ELSE [productos |-> restar_stock(prods, pid, cantidad.v),
              pedidos |->
                  Append(peds, Pedido("venta", cantidad.v, prods[pid].precio_coste,
                                      precio_con_nuevo_iva, total,
                                      descuento_cliente, iva_venta,
                                      destino, pid, now(d), "pendiente")),
              res |-> "ok"]

\* realizar_venta(producto_id), f the form: cantidad, descuento, iva, cliente_id
realizar_venta(us, prods, peds, d, u, pid, f) ==
    LET cantidad == int(form_get(f.cantidad, "1"))
        descuento == float(form_get(f.descuento, "0"))
        descuento_cliente == IF descuento.v < 0 \/ descuento.v > 100
                             THEN 0 ELSE descuento.v
        iva == float(form_get(f.iva, "21.0"))
        iva_venta == IF iva.v < 0 \/ iva.v > 100 THEN IVA_DEFECTO ELSE iva.v
        precio_base == sin_iva_defecto(prods[pid].precio_venta)
        precio_con_nuevo_iva == con_iva(precio_base, iva_venta)
        precio_con_descuento == con_descuento(precio_con_nuevo_iva, descuento_cliente)
        total == precio_con_descuento * cantidad.v
        con_cliente == us[u].rol = "admin" /\ f.cliente_id # ""
        destino == IF con_cliente THEN int(f.cliente_id).v ELSE u
        sin_cambio(r) == [productos |-> prods, pedidos |-> peds, res |-> r]
    IN  IF pid \notin DOMAIN prods THEN sin_cambio("404")
        ELSE IF ~cantidad.ok THEN sin_cambio("500")
        ELSE IF stock_insuficiente(prods, pid, cantidad.v)
             THEN sin_cambio("stock_insuficiente")
        ELSE IF ~descuento.ok THEN sin_cambio("500")
        ELSE IF ~iva.ok THEN sin_cambio("500")
        ELSE IF con_cliente /\ ~int(f.cliente_id).ok THEN sin_cambio("500")
        ELSE IF con_cliente /\ ~cliente_valido(us, destino)
             THEN sin_cambio("cliente_no_valido")
        ELSE [productos |-> restar_stock(prods, pid, cantidad.v),
              pedidos |->
                  Append(peds, Pedido("venta", cantidad.v, prods[pid].precio_coste,
                                      precio_con_nuevo_iva, total,
                                      descuento_cliente, iva_venta,
                                      destino, pid, now(d), "pendiente")),
              res |-> "ok"]

\* The delivery that takes the stock a second time
confirmar_entrega_descuenta(us, prods, peds, u, id) ==
    LET sin_cambio(r) == [productos |-> prods, pedidos |-> peds, res |-> r]
    IN  IF ~admin_required(us, u) THEN sin_cambio("denegado")
        ELSE IF id \notin 1..Len(peds) THEN sin_cambio("404")
        ELSE [productos |->
                  IF peds[id].producto_id \in DOMAIN prods
                  THEN restar_stock(prods, peds[id].producto_id, peds[id].cantidad)
                  ELSE prods,
              pedidos |-> [peds EXCEPT ![id].estado = "completado"],
              res |-> "ok"]

\* confirmar_entrega(id)
confirmar_entrega(us, prods, peds, u, id) ==
    LET sin_cambio(r) == [productos |-> prods, pedidos |-> peds, res |-> r]
    IN  IF ~admin_required(us, u) THEN sin_cambio("denegado")
        ELSE IF id \notin 1..Len(peds) THEN sin_cambio("404")
        ELSE [productos |-> prods,
              pedidos |-> [peds EXCEPT ![id].estado = "completado"],
              res |-> "ok"]

\* The cancellation open to every logged-in user
cancelar_reserva_sin_permiso(us, prods, peds, u, id) ==
    IF id \notin 1..Len(peds)
    THEN [productos |-> prods, pedidos |-> peds, res |-> "404"]
    ELSE IF peds[id].estado = "pendiente"
    THEN [productos |->
              IF peds[id].producto_id \in DOMAIN prods
              THEN [prods EXCEPT ![peds[id].producto_id].cantidad_actual =
                        @ + peds[id].cantidad]
              ELSE prods,
          pedidos |-> [peds EXCEPT ![id].estado = "cancelado"],
          res |-> "cancelada"]
    ELSE [productos |-> prods, pedidos |-> peds, res |-> "sin_efecto"]

\* The cancellation that returns the stock of any row not yet delivered
cancelar_reserva_repetida(us, prods, peds, u, id) ==
    IF id \notin 1..Len(peds)
    THEN [productos |-> prods, pedidos |-> peds, res |-> "404"]
    ELSE IF us[u].rol # "admin" /\ peds[id].usuario_id # u
    THEN [productos |-> prods, pedidos |-> peds, res |-> "denegado"]
    ELSE IF peds[id].estado # "completado"
    THEN [productos |->
              IF peds[id].producto_id \in DOMAIN prods
              THEN [prods EXCEPT ![peds[id].producto_id].cantidad_actual =
                        @ + peds[id].cantidad]
              ELSE prods,
          pedidos |-> [peds EXCEPT ![id].estado = "cancelado"],
          res |-> "cancelada"]
    ELSE [productos |-> prods, pedidos |-> peds, res |-> "sin_efecto"]

\* The cancellation that keeps the stock
cancelar_reserva_sin_devolver(us, prods, peds, u, id) ==
    IF id \notin 1..Len(peds)
    THEN [productos |-> prods, pedidos |-> peds, res |-> "404"]
    ELSE IF us[u].rol # "admin" /\ peds[id].usuario_id # u
    THEN [productos |-> prods, pedidos |-> peds, res |-> "denegado"]
    ELSE IF peds[id].estado = "pendiente"
    THEN [productos |-> prods,
          pedidos |-> [peds EXCEPT ![id].estado = "cancelado"],
          res |-> "cancelada"]
    ELSE [productos |-> prods, pedidos |-> peds, res |-> "sin_efecto"]

\* cancelar_reserva(pedido_id)
cancelar_reserva(us, prods, peds, u, id) ==
    IF id \notin 1..Len(peds)
    THEN [productos |-> prods, pedidos |-> peds, res |-> "404"]
    ELSE IF us[u].rol # "admin" /\ peds[id].usuario_id # u
    THEN [productos |-> prods, pedidos |-> peds, res |-> "denegado"]
    ELSE IF peds[id].estado = "pendiente"
    THEN [productos |->
              IF peds[id].producto_id \in DOMAIN prods
              THEN [prods EXCEPT ![peds[id].producto_id].cantidad_actual =
                        @ + peds[id].cantidad]
              ELSE prods,
          pedidos |-> [peds EXCEPT ![id].estado = "cancelado"],
          res |-> "cancelada"]
    ELSE [productos |-> prods, pedidos |-> peds, res |-> "sin_efecto"]

\* The restock booked as income
reabastecer_con_ingreso(us, prods, peds, d, u, pid, campo) ==
    LET cantidad_compra == int(form_get(campo, "0"))
        sin_cambio(r) == [productos |-> prods, pedidos |-> peds, res |-> r]
    IN  IF ~admin_required(us, u) THEN sin_cambio("denegado")
        ELSE IF pid \notin DOMAIN prods THEN sin_cambio("404")
        ELSE IF ~cantidad_compra.ok THEN sin_cambio("cantidad_invalida")
        ELSE IF cantidad_compra.v <= 0 THEN sin_cambio("cantidad_no_positiva")
        ELSE IF prods[pid].cantidad_actual + cantidad_compra.v
                    > prods[pid].stock_maximo
             THEN sin_cambio("excede_maximo")
        ELSE [productos |->
                  [prods EXCEPT ![pid].cantidad_actual = @ + cantidad_compra.v],
              pedidos |->
                  Append(peds, Pedido("compra", cantidad_compra.v,
                                      prods[pid].precio_coste,
                                      prods[pid].precio_venta,
                                      prods[pid].precio_venta * cantidad_compra.v,
                                      DESCUENTO_APLICADO_DEFECTO,
                                      IVA_APLICADO_DEFECTO,
                                      u, pid, now(d), ESTADO_DEFECTO)),
              res |-> "ok"]

\* The restock that compares the purchase alone with the maximum
reabastecer_sin_sumar(us, prods, peds, d, u, pid, campo) ==
    LET cantidad_compra == int(form_get(campo, "0"))
        sin_cambio(r) == [productos |-> prods, pedidos |-> peds, res |-> r]
    IN  IF ~admin_required(us, u) THEN sin_cambio("denegado")
        ELSE IF pid \notin DOMAIN prods THEN sin_cambio("404")
        ELSE IF ~cantidad_compra.ok THEN sin_cambio("cantidad_invalida")
        ELSE IF cantidad_compra.v <= 0 THEN sin_cambio("cantidad_no_positiva")
        ELSE IF cantidad_compra.v > prods[pid].stock_maximo
             THEN sin_cambio("excede_maximo")
        ELSE [productos |->
                  [prods EXCEPT ![pid].cantidad_actual = @ + cantidad_compra.v],
              pedidos |->
                  Append(peds, Pedido("compra", cantidad_compra.v,
                                      prods[pid].precio_coste,
                                      prods[pid].precio_venta, 0,
                                      DESCUENTO_APLICADO_DEFECTO,
                                      IVA_APLICADO_DEFECTO,
                                      u, pid, now(d), ESTADO_DEFECTO)),
              res |-> "ok"]

\* reabastecer_producto(producto_id)
reabastecer_producto(us, prods, peds, d, u, pid, campo) ==
    LET cantidad_compra == int(form_get(campo, "0"))
        sin_cambio(r) == [productos |-> prods, pedidos |-> peds, res |-> r]
    IN  IF ~admin_required(us, u) THEN sin_cambio("denegado")
        ELSE IF pid \notin DOMAIN prods THEN sin_cambio("404")
        ELSE IF ~cantidad_compra.ok THEN sin_cambio("cantidad_invalida")
        ELSE IF cantidad_compra.v <= 0 THEN sin_cambio("cantidad_no_positiva")
        ELSE IF prods[pid].cantidad_actual + cantidad_compra.v
                    > prods[pid].stock_maximo
             THEN sin_cambio("excede_maximo")
        ELSE [productos |->
                  [prods EXCEPT ![pid].cantidad_actual = @ + cantidad_compra.v],
              pedidos |->
                  Append(peds, Pedido("compra", cantidad_compra.v,
                                      prods[pid].precio_coste,
                                      prods[pid].precio_venta, 0,
                                      DESCUENTO_APLICADO_DEFECTO,
                                      IVA_APLICADO_DEFECTO,
                                      u, pid, now(d), ESTADO_DEFECTO)),
              res |-> "ok"]

\* The creation that books a purchase row even for an empty product
nuevo_producto_siempre_compra(us, prods, peds, d, u, f) ==
    LET p_coste_sin_iva == float(f.precio_coste)
        p_venta_sin_iva == float(f.precio_venta)
        iva_porcentaje == float(form_get(f.iva, "21.0"))
        p_coste == con_iva(importe(p_coste_sin_iva.v), iva_porcentaje.v)
        p_venta == con_iva(importe(p_venta_sin_iva.v), iva_porcentaje.v)
        stock_inicial == int(f.cantidad_actual)
        maximo == int(f.stock_maximo)
        id == IF DOMAIN prods = {} THEN 1
              ELSE 1 + CHOOSE m \in DOMAIN prods : \A p \in DOMAIN prods : p <= m
        sin_cambio(r) == [productos |-> prods, pedidos |-> peds, res |-> r]
    IN  IF ~admin_required(us, u) THEN sin_cambio("denegado")
        ELSE IF ~p_coste_sin_iva.ok \/ ~p_venta_sin_iva.ok
             THEN sin_cambio("datos_invalidos")
        ELSE IF ~iva_porcentaje.ok THEN sin_cambio("datos_invalidos")
        ELSE IF iva_porcentaje.v < 0 \/ iva_porcentaje.v > 100
             THEN sin_cambio("iva_invalido")
        ELSE IF ~stock_inicial.ok \/ ~maximo.ok THEN sin_cambio("datos_invalidos")
        ELSE IF p_coste_sin_iva.v < 0 \/ p_venta_sin_iva.v < 0
             THEN sin_cambio("precio_negativo")
        ELSE IF stock_inicial.v < 0 \/ maximo.v < 0
             THEN sin_cambio("cantidad_negativa")
        ELSE IF stock_inicial.v > maximo.v THEN sin_cambio("supera_maximo")
        ELSE IF f.proveedor_id # "" /\ ~int(f.proveedor_id).ok
             THEN sin_cambio("500")
        ELSE [productos |->
                  [p \in DOMAIN prods \cup {id} |->
                      IF p = id
                      THEN [precio_coste |-> p_coste, precio_venta |-> p_venta,
                            cantidad_actual |-> stock_inicial.v,
                            stock_maximo |-> maximo.v,
                            proveedor_id |->
                                IF f.proveedor_id # ""
                                THEN int(f.proveedor_id).v ELSE SinProveedor]
                      ELSE prods[p]],
              pedidos |->
                  Append(peds, Pedido("compra", stock_inicial.v,
                                      p_coste, p_venta, 0,
                                      DESCUENTO_APLICADO_DEFECTO,
                                      IVA_APLICADO_DEFECTO,
                                      u, id, now(d), ESTADO_DEFECTO)),
              res |-> "ok"]

\* nuevo_producto, f the form: precio_coste, precio_venta, iva,
\* cantidad_actual, stock_maximo
nuevo_producto(us, prods, peds, d, u, f) ==
    LET p_coste_sin_iva == float(f.precio_coste)
        p_venta_sin_iva == float(f.precio_venta)
        iva_porcentaje == float(form_get(f.iva, "21.0"))
        p_coste == con_iva(importe(p_coste_sin_iva.v), iva_porcentaje.v)
        p_venta == con_iva(importe(p_venta_sin_iva.v), iva_porcentaje.v)
        stock_inicial == int(f.cantidad_actual)
        maximo == int(f.stock_maximo)
        id == IF DOMAIN prods = {} THEN 1
              ELSE 1 + CHOOSE m \in DOMAIN prods : \A p \in DOMAIN prods : p <= m
        sin_cambio(r) == [productos |-> prods, pedidos |-> peds, res |-> r]
    IN  IF ~admin_required(us, u) THEN sin_cambio("denegado")
        ELSE IF ~p_coste_sin_iva.ok \/ ~p_venta_sin_iva.ok
             THEN sin_cambio("datos_invalidos")
        ELSE IF ~iva_porcentaje.ok THEN sin_cambio("datos_invalidos")
        ELSE IF iva_porcentaje.v < 0 \/ iva_porcentaje.v > 100
             THEN sin_cambio("iva_invalido")
        ELSE IF ~stock_inicial.ok \/ ~maximo.ok THEN sin_cambio("datos_invalidos")
        ELSE IF p_coste_sin_iva.v < 0 \/ p_venta_sin_iva.v < 0
             THEN sin_cambio("precio_negativo")
        ELSE IF stock_inicial.v < 0 \/ maximo.v < 0
             THEN sin_cambio("cantidad_negativa")
        ELSE IF stock_inicial.v > maximo.v THEN sin_cambio("supera_maximo")
        ELSE IF f.proveedor_id # "" /\ ~int(f.proveedor_id).ok
             THEN sin_cambio("500")
        ELSE [productos |->
                  [p \in DOMAIN prods \cup {id} |->
                      IF p = id
                      THEN [precio_coste |-> p_coste, precio_venta |-> p_venta,
                            cantidad_actual |-> stock_inicial.v,
                            stock_maximo |-> maximo.v,
                            proveedor_id |->
                                IF f.proveedor_id # ""
                                THEN int(f.proveedor_id).v ELSE SinProveedor]
                      ELSE prods[p]],
              pedidos |->
                  IF stock_inicial.v > 0
                  THEN Append(peds, Pedido("compra", stock_inicial.v,
                                           p_coste, p_venta, 0,
                                           DESCUENTO_APLICADO_DEFECTO,
                                           IVA_APLICADO_DEFECTO,
                                           u, id, now(d), ESTADO_DEFECTO))
                  ELSE peds,
              res |-> "ok"]

\* editar_producto(id), f the form: precio_coste, precio_venta,
\* cantidad_actual, stock_maximo
editar_producto(us, prods, u, pid, f) ==
    LET nuevo_precio_coste == float(f.precio_coste)
        nuevo_precio_venta == float(f.precio_venta)
        nueva_cantidad == int(f.cantidad_actual)
        nuevo_maximo == int(f.stock_maximo)
    IN  IF ~admin_required(us, u) THEN [productos |-> prods, res |-> "denegado"]
        ELSE IF pid \notin DOMAIN prods THEN [productos |-> prods, res |-> "404"]
        ELSE IF ~nuevo_precio_coste.ok \/ ~nuevo_precio_venta.ok
             THEN [productos |-> prods, res |-> "datos_invalidos"]
        ELSE IF ~nueva_cantidad.ok \/ ~nuevo_maximo.ok
             THEN [productos |-> prods, res |-> "datos_invalidos"]
        ELSE IF nuevo_precio_coste.v < 0 \/ nuevo_precio_venta.v < 0
             THEN [productos |-> prods, res |-> "precio_negativo"]
        ELSE IF nueva_cantidad.v < 0 \/ nuevo_maximo.v < 0
             THEN [productos |-> prods, res |-> "cantidad_negativa"]
        ELSE IF nueva_cantidad.v > nuevo_maximo.v
             THEN [productos |-> prods, res |-> "supera_maximo"]
        ELSE IF f.proveedor_id # "" /\ ~int(f.proveedor_id).ok
             THEN [productos |-> prods, res |-> "datos_invalidos"]
        ELSE [productos |->
                  [prods EXCEPT ![pid] =
                      [precio_coste |-> importe(nuevo_precio_coste.v),
                       precio_venta |-> importe(nuevo_precio_venta.v),
                       cantidad_actual |-> nueva_cantidad.v,
                       stock_maximo |-> nuevo_maximo.v,
                       proveedor_id |->
                           IF f.proveedor_id # ""
                           THEN int(f.proveedor_id).v ELSE SinProveedor]],
              res |-> "ok"]

\* The add validated against the stock on the shelf alone
anadir_al_carrito_sin_reservas(prods, peds, carr, pid, campo) ==
    LET cantidad_solicitada == int(form_get(campo, "1"))
        cantidad_actual_en_carrito == IF pid \in DOMAIN carr THEN carr[pid] ELSE 0
        nueva_cantidad_total == cantidad_actual_en_carrito + cantidad_solicitada.v
        stock_disponible == prods[pid].cantidad_actual
    IN  IF pid \notin DOMAIN prods THEN [carrito |-> carr, res |-> "404"]
        ELSE IF ~cantidad_solicitada.ok THEN [carrito |-> carr, res |-> "500"]
        ELSE IF nueva_cantidad_total > stock_disponible
             THEN [carrito |-> carr, res |-> "sin_disponible"]
        ELSE [carrito |->
                  [p \in DOMAIN carr \cup {pid} |->
                      IF p = pid THEN nueva_cantidad_total ELSE carr[p]],
              res |-> "ok"]

\* anadir_al_carrito(producto_id); carr is session['carrito'], product -> quantity
anadir_al_carrito(prods, peds, carr, pid, campo) ==
    LET cantidad_solicitada == int(form_get(campo, "1"))
        cantidad_actual_en_carrito == IF pid \in DOMAIN carr THEN carr[pid] ELSE 0
        nueva_cantidad_total == cantidad_actual_en_carrito + cantidad_solicitada.v
        stock_reservado == suma_cantidad(peds, reservas_pendientes(peds, pid))
        stock_disponible == prods[pid].cantidad_actual - stock_reservado
    IN  IF pid \notin DOMAIN prods THEN [carrito |-> carr, res |-> "404"]
        ELSE IF ~cantidad_solicitada.ok THEN [carrito |-> carr, res |-> "500"]
        ELSE IF nueva_cantidad_total > stock_disponible
             THEN [carrito |-> carr, res |-> "sin_disponible"]
        ELSE [carrito |->
                  [p \in DOMAIN carr \cup {pid} |->
                      IF p = pid THEN nueva_cantidad_total ELSE carr[p]],
              res |-> "ok"]

\* eliminar_del_carrito(producto_id)
eliminar_del_carrito(carr, pid) ==
    IF pid \in DOMAIN carr
    THEN [p \in DOMAIN carr \ {pid} |-> carr[p]]
    ELSE carr

\* vaciar_carrito: session.pop('carrito', None)
vaciar_carrito(carr) == << >>

RECURSIVE pedidos_del_carrito(_, _, _, _, _)
\* confirmar_carrito: the rows added for the lines in ids, in key order
pedidos_del_carrito(peds, carr, ids, u, d) ==
    IF ids = {} THEN peds
    ELSE LET p == CHOOSE q \in ids : \A r \in ids : q <= r
         IN pedidos_del_carrito(
                Append(peds, Pedido("venta", carr[p].cantidad,
                                    carr[p].precio_coste, carr[p].precio_venta,
                                    carr[p].precio_venta * carr[p].cantidad,
                                    DESCUENTO_APLICADO_DEFECTO,
                                    IVA_APLICADO_DEFECTO,
                                    u, p, now(d), "pendiente")),
                carr, ids \ {p}, u, d)

\* The checkout that commits line by line, up to the one that fails
confirmar_carrito_por_linea(prods, peds, carr, d, u) ==
    LET fallan == {p \in DOMAIN carr :
                      \/ p \notin DOMAIN prods
                      \/ prods[p].cantidad_actual < carr[p]}
        primera == CHOOSE p \in fallan : \A q \in fallan : p <= q
        hechas == IF fallan = {} THEN DOMAIN carr
                  ELSE {p \in DOMAIN carr : p < primera}
    IN  IF DOMAIN carr = {}
        THEN [productos |-> prods, pedidos |-> peds, carrito |-> carr,
              res |-> "vacio"]
        ELSE [productos |->
                  [p \in DOMAIN prods |->
                      IF p \in hechas
                      THEN [prods[p] EXCEPT !.cantidad_actual = @ - carr[p]]
                      ELSE prods[p]],
              pedidos |->
                  pedidos_del_carrito(
                      peds,
                      [p \in hechas |->
                          [cantidad |-> carr[p],
                           precio_coste |-> prods[p].precio_coste,
                           precio_venta |-> prods[p].precio_venta]],
                      hechas, u, d),
              carrito |-> IF fallan = {} THEN << >> ELSE carr,
              res |-> IF fallan = {} THEN "ok"
                      ELSE IF primera \notin DOMAIN prods THEN "500"
                      ELSE "stock_insuficiente"]

\* confirmar_carrito
confirmar_carrito(prods, peds, carr, d, u) ==
    LET sin_cambio(r) ==
            [productos |-> prods, pedidos |-> peds, carrito |-> carr, res |-> r]
        \* the lines at which the loop stops: product gone, or stock too low
        fallan == {p \in DOMAIN carr :
                      \/ p \notin DOMAIN prods
                      \/ prods[p].cantidad_actual < carr[p]}
        primera == CHOOSE p \in fallan : \A q \in fallan : p <= q
    IN  IF DOMAIN carr = {} THEN sin_cambio("vacio")
        ELSE IF fallan # {}
             THEN IF primera \notin DOMAIN prods THEN sin_cambio("500")
                  ELSE sin_cambio("stock_insuficiente")
        ELSE [productos |->
                  [p \in DOMAIN prods |->
                      IF p \in DOMAIN carr
                      THEN [prods[p] EXCEPT !.cantidad_actual = @ - carr[p]]
                      ELSE prods[p]],
              pedidos |->
                  pedidos_del_carrito(
                      peds,
                      [p \in DOMAIN carr |->
                          [cantidad |-> carr[p],
                           precio_coste |-> prods[p].precio_coste,
                           precio_venta |-> prods[p].precio_venta]],
                      DOMAIN carr, u, d),
              carrito |-> << >>,
              res |-> "ok"]

\* cambiar_estado(id)
cambiar_estado(us, u, id) ==
    IF ~admin_required(us, u) THEN [usuarios |-> us, res |-> "denegado"]
    ELSE IF id \notin DOMAIN us THEN [usuarios |-> us, res |-> "404"]
    ELSE IF id = u THEN [usuarios |-> us, res |-> "propia_cuenta"]
    ELSE [usuarios |-> [us EXCEPT ![id].activo = ~@], res |-> "ok"]

\* eliminar_usuario(id).  The delete of a user who has pedido rows sets their
\* usuario_id to NULL, which the column refuses: the commit raises
eliminar_usuario(us, peds, u, id) ==
    IF ~admin_required(us, u) THEN [usuarios |-> us, res |-> "denegado"]
    ELSE IF id \notin DOMAIN us THEN [usuarios |-> us, res |-> "404"]
    ELSE IF id = u THEN [usuarios |-> us, res |-> "propia_cuenta"]
    ELSE IF \E i \in 1..Len(peds) : peds[i].usuario_id = id
         THEN [usuarios |-> us, res |-> "500"]
    ELSE [usuarios |-> [w \in DOMAIN us \ {id} |-> us[w]], res |-> "ok"]

\* eliminar_producto(id).  As for a user: pedido.producto_id is NOT NULL
eliminar_producto(us, prods, peds, u, pid) ==
    IF ~admin_required(us, u) THEN [productos |-> prods, res |-> "denegado"]
    ELSE IF pid \notin DOMAIN prods THEN [productos |-> prods, res |-> "404"]
    ELSE IF \E i \in 1..Len(peds) : peds[i].producto_id = pid
         THEN [productos |-> prods, res |-> "500"]
    ELSE [productos |-> [p \in DOMAIN prods \ {pid} |-> prods[p]], res |-> "ok"]

\* nuevo_proveedor, f the form: cif, descuento.  An empty cif skips the
\* handler's own check and meets the UNIQUE constraint at the commit
nuevo_proveedor(us, provs, u, f) ==
    LET descuento == float(form_get(f.descuento, "0"))
        id == IF DOMAIN provs = {} THEN 1
              ELSE 1 + CHOOSE m \in DOMAIN provs : \A p \in DOMAIN provs : p <= m
        sin_cambio(r) == [proveedores |-> provs, res |-> r]
    IN  IF ~admin_required(us, u) THEN sin_cambio("denegado")
        ELSE IF ~descuento.ok THEN sin_cambio("datos_invalidos")
        ELSE IF descuento.v < 0 \/ descuento.v > 100
             THEN sin_cambio("descuento_invalido")
        ELSE IF f.cif # "" /\ \E p \in DOMAIN provs : provs[p].cif = f.cif
             THEN sin_cambio("cif_repetido")
        ELSE IF \E p \in DOMAIN provs : provs[p].cif = f.cif
             THEN sin_cambio("500")
        ELSE [proveedores |->
                  [p \in DOMAIN provs \cup {id} |->
                      IF p = id THEN [cif |-> f.cif, descuento |-> descuento.v]
                      ELSE provs[p]],
              res |-> "ok"]

\* editar_proveedor(id), f the form: cif, descuento
editar_proveedor(us, provs, u, id, f) ==
    LET nuevo_descuento == float(form_get(f.descuento, "0"))
        sin_cambio(r) == [proveedores |-> provs, res |-> r]
    IN  IF ~admin_required(us, u) THEN sin_cambio("denegado")
        ELSE IF id \notin DOMAIN provs THEN sin_cambio("404")
        ELSE IF ~nuevo_descuento.ok THEN sin_cambio("datos_invalidos")
        ELSE IF nuevo_descuento.v < 0 \/ nuevo_descuento.v > 100
             THEN sin_cambio("descuento_invalido")
        ELSE IF \E p \in DOMAIN provs \ {id} : provs[p].cif = f.cif
             THEN sin_cambio("500")
        ELSE [proveedores |->
                  [provs EXCEPT ![id] =
                      [cif |-> f.cif, descuento |-> nuevo_descuento.v]],
              res |-> "ok"]

\* proveedor.productos: the products whose proveedor_id is id
productos_de(prods, id) == {p \in DOMAIN prods : prods[p].proveedor_id = id}

\* The deletion that does not look at the supplier's products
eliminar_proveedor_sin_comprobar(us, provs, prods, u, id) ==
    IF ~admin_required(us, u) THEN [proveedores |-> provs, res |-> "denegado"]
    ELSE IF id \notin DOMAIN provs THEN [proveedores |-> provs, res |-> "404"]
    ELSE [proveedores |-> [p \in DOMAIN provs \ {id} |-> provs[p]], res |-> "ok"]

\* eliminar_proveedor(id)
eliminar_proveedor(us, provs, prods, u, id) ==
    IF ~admin_required(us, u) THEN [proveedores |-> provs, res |-> "denegado"]
    ELSE IF id \notin DOMAIN provs THEN [proveedores |-> provs, res |-> "404"]
    ELSE IF productos_de(prods, id) # {}
         THEN [proveedores |-> provs, res |-> "tiene_productos"]
    ELSE [proveedores |-> [p \in DOMAIN provs \ {id} |-> provs[p]], res |-> "ok"]

\* pedidos_clientes: the rows listed, the user's own sale rows
pedidos_clientes(peds, u) ==
    {i \in 1..Len(peds) : peds[i].usuario_id = u /\ peds[i].tipo = "venta"}

\* panel_admin_reservas: the sweep, then every sale row listed
panel_admin_reservas(us, prods, peds, d, u) ==
    IF ~admin_required(us, u)
    THEN [productos |-> prods, pedidos |-> peds, reservas |-> {},
          res |-> "denegado"]
    ELSE LET r == limpiar_reservas_expiradas(prods, peds, d)
         IN  [productos |-> r.productos, pedidos |-> r.pedidos,
              reservas |-> {i \in 1..Len(r.pedidos) : r.pedidos[i].tipo = "venta"},
              res |-> "ok"]

\* The balance that counts a sale as income from the day it is reserved
dashboard_con_reservas(us, prods, peds, d, u) ==
    IF ~admin_required(us, u)
    THEN [productos |-> prods, pedidos |-> peds, ventas_reales |-> {},
          total_ingresos |-> 0, total_costos |-> 0, res |-> "denegado"]
    ELSE LET r == limpiar_reservas_expiradas(prods, peds, d)
             ventas_reales ==
                 {i \in 1..Len(r.pedidos) :
                     /\ r.pedidos[i].tipo = "venta"
                     /\ r.pedidos[i].estado \in {"completado", "pendiente"}}
             compras_proveedor ==
                 {i \in 1..Len(r.pedidos) : r.pedidos[i].tipo = "compra"}
         IN  [productos |-> r.productos, pedidos |-> r.pedidos,
              ventas_reales |-> ventas_reales,
              total_ingresos |-> suma_total_venta(r.pedidos, ventas_reales),
              total_costos |-> suma_costos(r.pedidos, compras_proveedor),
              res |-> "ok"]

\* dashboard: the sweep, then the balance of income and costs
dashboard(us, prods, peds, d, u) ==
    IF ~admin_required(us, u)
    THEN [productos |-> prods, pedidos |-> peds, ventas_reales |-> {},
          total_ingresos |-> 0, total_costos |-> 0, res |-> "denegado"]
    ELSE LET r == limpiar_reservas_expiradas(prods, peds, d)
             ventas_reales ==
                 {i \in 1..Len(r.pedidos) :
                     /\ r.pedidos[i].tipo = "venta"
                     /\ r.pedidos[i].estado = "completado"}
             compras_proveedor ==
                 {i \in 1..Len(r.pedidos) : r.pedidos[i].tipo = "compra"}
         IN  [productos |-> r.productos, pedidos |-> r.pedidos,
              ventas_reales |-> ventas_reales,
              total_ingresos |-> suma_total_venta(r.pedidos, ventas_reales),
              total_costos |-> suma_costos(r.pedidos, compras_proveedor),
              res |-> "ok"]

\* ------------------------------------------------------------- actions
\* The sale forms posted: well-formed ones, for oneself or for client 2, and
\* one with each field in turn not a number or naming no active client
VentaForm ==
    {[cantidad |-> c, descuento |-> "", iva |-> "", cliente_id |-> k] :
        c \in {"", "-1", "2"}, k \in {"", "2"}}
    \cup {[cantidad |-> "abc", descuento |-> "", iva |-> "", cliente_id |-> ""],
          [cantidad |-> "", descuento |-> "abc", iva |-> "", cliente_id |-> ""],
          [cantidad |-> "", descuento |-> "", iva |-> "abc", cliente_id |-> ""]}
    \cup {[cantidad |-> "", descuento |-> "", iva |-> "", cliente_id |-> k] :
              k \in {"abc", "1", "3", "4"}}

\* The product forms posted: stock 0 or MaxStock under maximum MaxStock, a
\* stock above the maximum, a price or a stock not a number, a negative stock,
\* a negative price, a tax above 100
ProductoForm ==
    {[precio_coste |-> pc, precio_venta |-> "100", iva |-> "", proveedor_id |-> "",
      cantidad_actual |-> c, stock_maximo |-> m] :
        pc \in {"100"}, c \in {"0", ToString(MaxStock)}, m \in {ToString(MaxStock)}}
    \cup {[precio_coste |-> "100", precio_venta |-> "100", iva |-> "", proveedor_id |-> "",
           cantidad_actual |-> ToString(MaxStock), stock_maximo |-> "0"],
          [precio_coste |-> "abc", precio_venta |-> "100", iva |-> "", proveedor_id |-> "",
           cantidad_actual |-> "0", stock_maximo |-> ToString(MaxStock)],
          [precio_coste |-> "100", precio_venta |-> "100", iva |-> "", proveedor_id |-> "",
           cantidad_actual |-> "abc", stock_maximo |-> ToString(MaxStock)],
          [precio_coste |-> "100", precio_venta |-> "100", iva |-> "", proveedor_id |-> "",
           cantidad_actual |-> "-1", stock_maximo |-> ToString(MaxStock)],
          [precio_coste |-> "-1", precio_venta |-> "100", iva |-> "", proveedor_id |-> "",
           cantidad_actual |-> "0", stock_maximo |-> ToString(MaxStock)],
          [precio_coste |-> "100", precio_venta |-> "100", iva |-> "101", proveedor_id |-> "",
           cantidad_actual |-> "0", stock_maximo |-> ToString(MaxStock)]}

\* The edit forms posted: the product forms, with the prices the edit page
\* shows for a product created at 100 before tax
EdicionForm ==
    {[f EXCEPT !.precio_coste = IF @ = "100" THEN "121" ELSE @,
               !.precio_venta = IF @ = "100" THEN "121" ELSE @] :
        f \in ProductoForm}

\* The quantity field of the restock form
CompraForm == {"", "abc", "-1", "1", "2"}

\* POST /venta/nueva/<producto_id>
RealizarVenta ==
    \E u \in UsuarioIds, pid \in ProductoIds, f \in VentaForm :
        LET r == realizar_venta(usuarios, productos, pedidos, reloj, u, pid, f)
        IN  /\ Len(r.pedidos) <= MaxPedidos
            /\ productos' = r.productos
            /\ pedidos' = r.pedidos
            /\ UNCHANGED <<usuarios, proveedores, carrito, reloj, peticiones>>

\* GET /pedido/confirmar_entrega/<id>
ConfirmarEntrega ==
    \E u \in ActoresAdmin, id \in PedidoIds :
        LET r == confirmar_entrega(usuarios, productos, pedidos, u, id)
        IN  /\ productos' = r.productos
            /\ pedidos' = r.pedidos
            /\ UNCHANGED <<usuarios, proveedores, carrito, reloj, peticiones>>

\* GET /pedido/cancelar/<pedido_id>
CancelarReserva ==
    \E u \in UsuarioIds, id \in PedidoIds :
        LET r == cancelar_reserva(usuarios, productos, pedidos, u, id)
        IN  /\ productos' = r.productos
            /\ pedidos' = r.pedidos
            /\ UNCHANGED <<usuarios, proveedores, carrito, reloj, peticiones>>

\* GET /admin/reservas
PanelAdminReservas ==
    \E u \in ActoresAdmin :
        LET r == panel_admin_reservas(usuarios, productos, pedidos, reloj, u)
        IN  /\ productos' = r.productos
            /\ pedidos' = r.pedidos
            /\ UNCHANGED <<usuarios, proveedores, carrito, reloj, peticiones>>

\* GET /dashboard
Dashboard ==
    \E u \in ActoresAdmin :
        LET r == dashboard(usuarios, productos, pedidos, reloj, u)
        IN  /\ productos' = r.productos
            /\ pedidos' = r.pedidos
            /\ UNCHANGED <<usuarios, proveedores, carrito, reloj, peticiones>>

\* GET /pedidos-clientes: renders the user's own sale rows, no sweep
PedidosClientes ==
    \E u \in UsuarioIds :
        /\ pedidos_clientes(pedidos, u) \subseteq 1..Len(pedidos)
        /\ UNCHANGED vars

\* POST /producto/reabastecer/<producto_id>
ReabastecerProducto ==
    \E u \in ActoresAdmin, pid \in ProductoIds, campo \in CompraForm :
        LET r == reabastecer_producto(usuarios, productos, pedidos, reloj,
                                      u, pid, campo)
        IN  /\ Len(r.pedidos) <= MaxPedidos
            /\ productos' = r.productos
            /\ pedidos' = r.pedidos
            /\ UNCHANGED <<usuarios, proveedores, carrito, reloj, peticiones>>

\* POST /producto/nuevo
NuevoProducto ==
    \E u \in ActoresAdmin, f \in ProductoForm :
        LET r == nuevo_producto(usuarios, productos, pedidos, reloj, u, f)
        IN  /\ DOMAIN r.productos \subseteq ProductoIds
            /\ Len(r.pedidos) <= MaxPedidos
            /\ productos' = r.productos
            /\ pedidos' = r.pedidos
            /\ UNCHANGED <<usuarios, proveedores, carrito, reloj, peticiones>>

\* POST /producto/editar/<id>
EditarProducto ==
    \E u \in ActoresAdmin, pid \in ProductoIds, f \in EdicionForm :
        LET r == editar_producto(usuarios, productos, u, pid, f)
        IN  /\ productos' = r.productos
            /\ UNCHANGED <<usuarios, proveedores, pedidos, carrito, reloj, peticiones>>

\* Time passes between requests
Tick ==
    /\ reloj < MaxReloj
    /\ reloj' = reloj + 1
    /\ UNCHANGED <<usuarios, proveedores, productos, pedidos, carrito, peticiones>>

\* The tables after create_app(), the registration of clients 2 and 3, the
\* deactivation of client 3 (whose session stays open), and the creation of
\* product 1 at 100 before tax with no stock, then edited to MaxStock units
Init ==
    /\ usuarios = [u \in UsuarioIds |->
                      [rol |-> IF u = 1 THEN "admin" ELSE "cliente",
                       activo |-> u # 3]]
    /\ productos = [p \in {1} |->
                      [precio_coste |-> con_iva(importe(100), IVA_DEFECTO),
                       precio_venta |-> con_iva(importe(100), IVA_DEFECTO),
                       cantidad_actual |-> MaxStock, stock_maximo |-> MaxStock,
                       proveedor_id |-> SinProveedor]]
    /\ proveedores = << >>
    /\ pedidos = << >>
    /\ carrito = [u \in UsuarioIds |-> << >>]
    /\ reloj = 0
    /\ peticiones = << >>

Next ==
    \/ RealizarVenta
    \/ ConfirmarEntrega
    \/ CancelarReserva
    \/ PanelAdminReservas
    \/ Dashboard
    \/ PedidosClientes
    \/ ReabastecerProducto
    \/ NuevoProducto
    \/ Tick

\* The reservation lifecycle: every request that creates or moves a pedido row
Spec == Init /\ [][Next]_vars

\* The reservation lifecycle when an admin keeps opening /admin/reservas or
\* /dashboard: a load that has something to sweep is not put off forever
SpecVistas == Init /\ [][Next]_vars /\ WF_vars(PanelAdminReservas \/ Dashboard)

\* The same with the product form of the catalog, which overwrites stock
SpecCatalogo == Init /\ [][Next \/ EditarProducto]_vars

\* ---------------------------------------------- requests served in parallel
\* The threads of the development server (app.run), each with its own
\* session and connection
Hilos == {1, 2}

\* A thread with no request
Libre ==
    [pc |-> "libre", op |-> "", u |-> 0, pid |-> 0, id |-> 0,
     f |-> [cantidad |-> "", descuento |-> "", iva |-> "", cliente_id |-> ""],
     visto |-> << >>, res |-> ""]

\* The sale forms of the parallel requests: one unit or two, for oneself or
\* for client 2
VentaFormConc ==
    {f \in VentaForm :
        /\ f.cantidad \in {"", "2"}
        /\ f.descuento = "" /\ f.iva = ""
        /\ f.cliente_id \in {"", "2"}}

\* realizar_venta up to Producto.query.get_or_404: the thread's session
\* loads the producto rows as they are now
RecibirVenta(h) ==
    /\ peticiones[h].pc = "libre"
    /\ Len(pedidos) + Cardinality({g \in Hilos : peticiones[g].pc = "leido"})
           < MaxPedidos
    /\ \E u \in ActoresAdmin, pid \in ProductoIds, f \in VentaFormConc :
           peticiones' = [peticiones EXCEPT ![h] =
               [pc |-> "leido", op |-> "venta", u |-> u, pid |-> pid, id |-> 0,
                f |-> f, visto |-> productos, res |-> ""]]
    /\ UNCHANGED <<usuarios, proveedores, productos, pedidos, carrito, reloj>>

\* realizar_venta from the stock check to db.session.commit(): the checks and
\* the decrement are computed on the rows the session loaded; the flush
\* writes the new cantidad_actual of the product and inserts the pedido row
CommitVenta(h) ==
    /\ peticiones[h].pc = "leido"
    /\ peticiones[h].op = "venta"
    /\ LET q == peticiones[h]
           r == realizar_venta(usuarios, q.visto, pedidos, reloj, q.u, q.pid, q.f)
       IN  /\ IF r.res = "ok"
              THEN /\ productos' =
                          [productos EXCEPT ![q.pid].cantidad_actual =
                              r.productos[q.pid].cantidad_actual]
                   /\ pedidos' = Append(pedidos, r.pedidos[Len(r.pedidos)])
              ELSE UNCHANGED <<productos, pedidos>>
           /\ peticiones' = [peticiones EXCEPT ![h].pc = "fin", ![h].res = r.res]
    /\ UNCHANGED <<usuarios, proveedores, carrito, reloj>>

\* The response is sent and the thread takes the next request
Responder(h) ==
    /\ peticiones[h].pc = "fin"
    /\ peticiones' = [peticiones EXCEPT ![h] = Libre]
    /\ UNCHANGED <<usuarios, proveedores, productos, pedidos, carrito, reloj>>

InitConc ==
    /\ usuarios = [u \in UsuarioIds |->
                      [rol |-> IF u = 1 THEN "admin" ELSE "cliente",
                       activo |-> u # 3]]
    /\ productos = [p \in {1} |->
                      [precio_coste |-> con_iva(importe(100), IVA_DEFECTO),
                       precio_venta |-> con_iva(importe(100), IVA_DEFECTO),
                       cantidad_actual |-> MaxStock, stock_maximo |-> MaxStock,
                       proveedor_id |-> SinProveedor]]
    /\ proveedores = << >>
    /\ pedidos = << >>
    /\ carrito = [u \in UsuarioIds |-> << >>]
    /\ reloj = 0
    /\ peticiones = [h \in Hilos |-> Libre]

NextConc ==
    \/ \E h \in Hilos : RecibirVenta(h)
    \/ \E h \in Hilos : CommitVenta(h)
    \/ \E h \in Hilos : Responder(h)

\* Sales only, posted by two threads at once
SpecConc == InitConc /\ [][NextConc]_vars

\* ------------------------------- reservations closed by parallel requests
\* Each thread's session loads a row with a SELECT of its own and keeps it;
\* the flush at db.session.commit() writes the columns the session changed,
\* with the values it computed from the rows as it loaded them.

\* cancelar_reserva, confirmar_entrega or a page that sweeps, up to the first
\* query: the session loads the pedido rows as they are now
RecibirCierre(h) ==
    /\ peticiones[h].pc = "libre"
    /\ \E op \in {"cancelar", "confirmar", "limpiar"}, u \in ActoresAdmin,
          id \in 1..Len(pedidos) :
           /\ op \in {"confirmar", "limpiar"} => admin_required(usuarios, u)
           /\ op = "limpiar" => id = 1
           /\ peticiones' = [peticiones EXCEPT ![h] =
                  [Libre EXCEPT !.pc = "pedido_leido", !.op = op, !.u = u,
                                !.id = id,
                                !.visto = [pedidos |-> pedidos, productos |-> << >>]]]
    /\ UNCHANGED <<usuarios, proveedores, productos, pedidos, carrito, reloj>>

\* cancelar_reserva and limpiar_reservas_expiradas at Producto.query.get: a
\* request with a row to close loads the producto rows as they are now; one
\* with none (not allowed, not pendiente, nothing stale) ends without a commit
LeerProducto(h) ==
    /\ peticiones[h].pc = "pedido_leido"
    /\ peticiones[h].op \in {"cancelar", "limpiar"}
    /\ LET q == peticiones[h]
           c == cancelar_reserva(usuarios, productos, q.visto.pedidos, q.u, q.id)
           cierra == IF q.op = "cancelar" THEN c.res = "cancelada"
                     ELSE expirados(q.visto.pedidos, reloj) # {}
       IN  peticiones' = [peticiones EXCEPT ![h] =
               IF cierra
               THEN [q EXCEPT !.pc = "producto_leido", !.visto.productos = productos]
               ELSE [q EXCEPT !.pc = "fin",
                              !.res = IF q.op = "cancelar" THEN c.res ELSE "ok"]]
    /\ UNCHANGED <<usuarios, proveedores, productos, pedidos, carrito, reloj>>

\* cancelar_reserva and limpiar_reservas_expiradas at db.session.commit():
\* the handler's result on the rows the session loaded is written over the
\* tables, column by column
CommitCierre(h) ==
    /\ peticiones[h].pc = "producto_leido"
    /\ LET q == peticiones[h]
           r == IF q.op = "cancelar"
                THEN cancelar_reserva(usuarios, q.visto.productos, q.visto.pedidos,
                                      q.u, q.id)
                ELSE limpiar_reservas_expiradas(q.visto.productos, q.visto.pedidos,
                                                reloj)
       IN  /\ productos' =
                  [p \in DOMAIN productos |->
                      IF r.productos[p].cantidad_actual
                             # q.visto.productos[p].cantidad_actual
                      THEN [productos[p] EXCEPT !.cantidad_actual =
                                r.productos[p].cantidad_actual]
                      ELSE productos[p]]
           /\ pedidos' =
                  [i \in 1..Len(pedidos) |->
                      IF r.pedidos[i].estado # q.visto.pedidos[i].estado
                      THEN [pedidos[i] EXCEPT !.estado = r.pedidos[i].estado]
                      ELSE pedidos[i]]
           /\ peticiones' = [peticiones EXCEPT ![h].pc = "fin",
                                               ![h].res = "ok"]
    /\ UNCHANGED <<usuarios, proveedores, carrito, reloj>>

\* confirmar_entrega at db.session.commit(): estado is written when it
\* differs from the one loaded
CommitConfirmar(h) ==
    /\ peticiones[h].pc = "pedido_leido"
    /\ peticiones[h].op = "confirmar"
    /\ LET q == peticiones[h]
           r == confirmar_entrega(usuarios, productos, q.visto.pedidos, q.u, q.id)
       IN  /\ pedidos' =
                  [i \in 1..Len(pedidos) |->
                      IF r.pedidos[i].estado # q.visto.pedidos[i].estado
                      THEN [pedidos[i] EXCEPT !.estado = r.pedidos[i].estado]
                      ELSE pedidos[i]]
           /\ peticiones' = [peticiones EXCEPT ![h].pc = "fin",
                                               ![h].res = r.res]
    /\ UNCHANGED <<usuarios, proveedores, productos, carrito, reloj>>

\* Product 1 after client 2 and the admin each reserved one unit of it,
\* more than 48 hours ago
InitConcReservas ==
    /\ usuarios = [u \in UsuarioIds |->
                      [rol |-> IF u = 1 THEN "admin" ELSE "cliente",
                       activo |-> u # 3]]
    /\ proveedores = << >>
    /\ productos = [p \in {1} |->
                      [precio_coste |-> con_iva(importe(100), IVA_DEFECTO),
                       precio_venta |-> con_iva(importe(100), IVA_DEFECTO),
                       cantidad_actual |-> MaxStock - 2, stock_maximo |-> MaxStock,
                       proveedor_id |-> SinProveedor]]
    /\ pedidos = [i \in 1..2 |->
                      Pedido("venta", 1, con_iva(importe(100), IVA_DEFECTO),
                             con_iva(importe(100), IVA_DEFECTO),
                             con_iva(importe(100), IVA_DEFECTO),
                             DESCUENTO_APLICADO_DEFECTO, IVA_APLICADO_DEFECTO,
                             IF i = 1 THEN 2 ELSE 1, 1, now(0), "pendiente")]
    /\ carrito = [u \in UsuarioIds |-> << >>]
    /\ reloj = MaxReloj
    /\ peticiones = [h \in Hilos |-> Libre]

NextConcReservas ==
    \/ \E h \in Hilos : RecibirCierre(h)
    \/ \E h \in Hilos : LeerProducto(h)
    \/ \E h \in Hilos : CommitCierre(h)
    \/ \E h \in Hilos : CommitConfirmar(h)
    \/ \E h \in Hilos : Responder(h)

\* Cancellations, deliveries and sweeps, asked for by two threads at once
SpecConcReservas == InitConcReservas /\ [][NextConcReservas]_vars

\* ------------------------------------------------------------- the cart
\* The sessions that fill a cart: the admin's and client 2's
UsuariosCarrito == {1, 2}

\* The quantity field of the add-to-cart form
CarritoForm == {"", "2", "-1", "abc"}

\* The most a cart line is taken below zero by adds of -1
MaxNegativo == 1

\* POST /carrito/añadir/<producto_id>
AnadirAlCarrito ==
    \E u \in UsuariosCarrito, pid \in ProductoIds, campo \in CarritoForm :
        LET r == anadir_al_carrito(productos, pedidos, carrito[u], pid, campo)
        IN  /\ \A p \in DOMAIN r.carrito : r.carrito[p] >= -MaxNegativo
            /\ carrito' = [carrito EXCEPT ![u] = r.carrito]
            /\ UNCHANGED <<usuarios, proveedores, productos, pedidos, reloj, peticiones>>

\* GET /carrito/eliminar/<producto_id>
EliminarDelCarrito ==
    \E u \in UsuariosCarrito, pid \in ProductoIds :
        /\ carrito' = [carrito EXCEPT ![u] = eliminar_del_carrito(@, pid)]
        /\ UNCHANGED <<usuarios, proveedores, productos, pedidos, reloj, peticiones>>

\* GET /carrito/vaciar
VaciarCarrito ==
    \E u \in UsuariosCarrito :
        /\ carrito' = [carrito EXCEPT ![u] = vaciar_carrito(@)]
        /\ UNCHANGED <<usuarios, proveedores, productos, pedidos, reloj, peticiones>>

\* POST /carrito/confirmar
ConfirmarCarrito ==
    \E u \in UsuariosCarrito :
        LET r == confirmar_carrito(productos, pedidos, carrito[u], reloj, u)
        IN  /\ Len(r.pedidos) <= MaxPedidos
            /\ productos' = r.productos
            /\ pedidos' = r.pedidos
            /\ carrito' = [carrito EXCEPT ![u] = r.carrito]
            /\ UNCHANGED <<usuarios, proveedores, reloj, peticiones>>

\* The tables of Init, with a second product whose prices were typed as 59 on
\* the edit page
InitCarrito ==
    /\ usuarios = [u \in UsuarioIds |->
                      [rol |-> IF u = 1 THEN "admin" ELSE "cliente",
                       activo |-> u # 3]]
    /\ productos = [p \in ProductoIds |->
                      [precio_coste |-> IF p = 1 THEN con_iva(importe(100), IVA_DEFECTO)
                                        ELSE importe(59),
                       precio_venta |-> IF p = 1 THEN con_iva(importe(100), IVA_DEFECTO)
                                        ELSE importe(59),
                       cantidad_actual |-> MaxStock, stock_maximo |-> MaxStock,
                       proveedor_id |-> SinProveedor]]
    /\ proveedores = << >>
    /\ pedidos = << >>
    /\ carrito = [u \in UsuarioIds |-> << >>]
    /\ reloj = 0
    /\ peticiones = << >>

NextCarrito ==
    \/ AnadirAlCarrito
    \/ EliminarDelCarrito
    \/ VaciarCarrito
    \/ ConfirmarCarrito

\* The cart of two sessions and its checkout
SpecCarrito == InitCarrito /\ [][NextCarrito]_vars

\* ------------------------------------- users, suppliers and the catalog
\* A request with no session
Anonimo == 0

\* Who calls the admin pages: nobody logged in, the admin, a client, and a
\* client that has been deactivated
Actores == {Anonimo} \cup UsuarioIds

ProveedorIds == {1, 2}     \* ids of the proveedor table

\* The supplier forms posted
ProveedorForm ==
    {[cif |-> c, descuento |-> d] :
        c \in {"", "A"}, d \in {"", "10", "101", "abc"}}

\* The edit forms that move a product to a supplier, to none, or to text
\* that is no id
EdicionProveedorForm ==
    {[precio_coste |-> "121", precio_venta |-> "121",
      cantidad_actual |-> ToString(MaxStock), stock_maximo |-> ToString(MaxStock),
      proveedor_id |-> k] : k \in {"", "1", "2", "abc"}}

\* GET, POST /proveedor/nuevo
NuevoProveedor ==
    \E u \in Actores, f \in ProveedorForm :
        LET r == nuevo_proveedor(usuarios, proveedores, u, f)
        IN  /\ DOMAIN r.proveedores \subseteq ProveedorIds
            /\ proveedores' = r.proveedores
            /\ UNCHANGED <<usuarios, productos, pedidos, carrito, reloj, peticiones>>

\* GET, POST /proveedor/editar/<id>
EditarProveedor ==
    \E u \in Actores, id \in ProveedorIds, f \in ProveedorForm :
        LET r == editar_proveedor(usuarios, proveedores, u, id, f)
        IN  /\ proveedores' = r.proveedores
            /\ UNCHANGED <<usuarios, productos, pedidos, carrito, reloj, peticiones>>

\* GET /proveedor/eliminar/<id>
EliminarProveedor ==
    \E u \in Actores, id \in ProveedorIds :
        LET r == eliminar_proveedor(usuarios, proveedores, productos, u, id)
        IN  /\ proveedores' = r.proveedores
            /\ UNCHANGED <<usuarios, productos, pedidos, carrito, reloj, peticiones>>

\* GET /usuarios/estado/<id>
CambiarEstado ==
    \E u \in Actores, id \in UsuarioIds :
        LET r == cambiar_estado(usuarios, u, id)
        IN  /\ usuarios' = r.usuarios
            /\ UNCHANGED <<proveedores, productos, pedidos, carrito, reloj, peticiones>>

\* GET /eliminar_usuario/<id>
EliminarUsuario ==
    \E u \in Actores, id \in UsuarioIds :
        LET r == eliminar_usuario(usuarios, pedidos, u, id)
        IN  /\ usuarios' = r.usuarios
            /\ UNCHANGED <<proveedores, productos, pedidos, carrito, reloj, peticiones>>

\* GET /producto/eliminar/<id>
EliminarProducto ==
    \E u \in Actores, pid \in ProductoIds :
        LET r == eliminar_producto(usuarios, productos, pedidos, u, pid)
        IN  /\ productos' = r.productos
            /\ UNCHANGED <<usuarios, proveedores, pedidos, carrito, reloj, peticiones>>

\* POST /producto/editar/<id>, with the supplier field filled in
EditarProductoProveedor ==
    \E u \in Actores, pid \in ProductoIds, f \in EdicionProveedorForm :
        LET r == editar_producto(usuarios, productos, u, pid, f)
        IN  /\ productos' = r.productos
            /\ UNCHANGED <<usuarios, proveedores, pedidos, carrito, reloj, peticiones>>

\* The tables of Init with a second product, after client 2 has reserved one
\* unit of product 1
InitGestion ==
    /\ usuarios = [u \in UsuarioIds |->
                      [rol |-> IF u = 1 THEN "admin" ELSE "cliente",
                       activo |-> u # 3]]
    /\ proveedores = << >>
    /\ productos = [p \in ProductoIds |->
                      [precio_coste |-> con_iva(importe(100), IVA_DEFECTO),
                       precio_venta |-> con_iva(importe(100), IVA_DEFECTO),
                       cantidad_actual |-> IF p = 1 THEN MaxStock - 1 ELSE MaxStock,
                       stock_maximo |-> MaxStock,
                       proveedor_id |-> SinProveedor]]
    /\ pedidos = <<Pedido("venta", 1, con_iva(importe(100), IVA_DEFECTO),
                          con_iva(importe(100), IVA_DEFECTO),
                          con_iva(importe(100), IVA_DEFECTO),
                          DESCUENTO_APLICADO_DEFECTO, IVA_APLICADO_DEFECTO,
                          2, 1, now(0), "pendiente")>>
    /\ carrito = [u \in UsuarioIds |-> << >>]
    /\ reloj = 0
    /\ peticiones = << >>

NextGestion ==
    \/ NuevoProveedor
    \/ EditarProveedor
    \/ EliminarProveedor
    \/ CambiarEstado
    \/ EliminarUsuario
    \/ EliminarProducto
    \/ EditarProductoProveedor

\* The admin pages for users, suppliers and the supplier of a product
SpecGestion == InitGestion /\ [][NextGestion]_vars

\* ------------------------------------------- sales with tax and discount
\* The percentages typed into the discount and tax fields: none, below the
\* range, its two ends, inside it, above it
Porcentajes == {"", "-1", "0", "10", "100", "101"}

\* The sale forms posted with a discount and a tax, for oneself
VentaFormPrecio ==
    {[cantidad |-> c, descuento |-> de, iva |-> i, cliente_id |-> ""] :
        c \in {"", "2"}, de \in Porcentajes, i \in Porcentajes}

\* POST /venta/nueva/<producto_id> by the admin or client 2
RealizarVentaPrecio ==
    \E u \in ActoresAdmin, pid \in ProductoIds, f \in VentaFormPrecio :
        LET r == realizar_venta(usuarios, productos, pedidos, reloj, u, pid, f)
        IN  /\ Len(r.pedidos) <= MaxPedidos
            /\ productos' = r.productos
            /\ pedidos' = r.pedidos
            /\ UNCHANGED <<usuarios, proveedores, carrito, reloj, peticiones>>

\* Sales of the two products of InitCarrito at every discount and tax
SpecPrecios == InitCarrito /\ [][RealizarVentaPrecio]_vars

\* ------------------------------------------------------------------ claims
\* C1: every product keeps 0 <= cantidad_actual <= stock_maximo after any
\* sequence of committed requests
C1_StockDentroDeLimites ==
    \A p \in DOMAIN productos :
        /\ 0 <= productos[p].cantidad_actual
        /\ productos[p].cantidad_actual <= productos[p].stock_maximo

\* C2: with sales posted in parallel, no update is lost and nothing is
\* over-reserved: each product holds its initial MaxStock units less the
\* quantities of the accepted sales, and those quantities sum to at most
\* MaxStock
C2_SinActualizacionPerdida ==
    \A p \in DOMAIN productos :
        LET reservado == suma_cantidad(pedidos, reservas_pendientes(pedidos, p))
        IN  /\ productos[p].cantidad_actual = MaxStock - reservado
            /\ reservado <= MaxStock

\* C3: a sale row that is completado or cancelado keeps that estado in
\* every later step
C3_EstadoTerminalFijo ==
    [][\A i \in 1..Len(pedidos) :
          (/\ pedidos[i].tipo = "venta"
           /\ pedidos[i].estado \in {"completado", "cancelado"})
          => pedidos'[i].estado = pedidos[i].estado]_vars

\* C4: a sale accepted in this state and cancelled at once, by its owner or
\* by an admin, leaves the product with the quantity it has now
C4_VentaLuegoCancelar ==
    \A u \in UsuarioIds, pid \in ProductoIds, f \in VentaForm :
        LET v == realizar_venta(usuarios, productos, pedidos, reloj, u, pid, f)
            id == Len(v.pedidos)
        IN  v.res = "ok" =>
                \A w \in UsuarioIds :
                    (usuarios[w].rol = "admin" \/ v.pedidos[id].usuario_id = w) =>
                        LET c == cancelar_reserva(usuarios, v.productos,
                                                  v.pedidos, w, id)
                        IN  /\ c.res = "cancelada"
                            /\ c.pedidos[id].estado = "cancelado"
                            /\ c.productos[pid].cantidad_actual
                                   = productos[pid].cantidad_actual

\* C4 happens: a sale has been cancelled before, and a sale that takes stock
\* is accepted here
C4_Witness ==
    /\ \E i \in 1..Len(pedidos) :
           pedidos[i].tipo = "venta" /\ pedidos[i].estado = "cancelado"
    /\ \E u \in UsuarioIds, pid \in ProductoIds, f \in VentaForm :
           LET v == realizar_venta(usuarios, productos, pedidos, reloj, u, pid, f)
           IN  /\ v.res = "ok"
               /\ v.productos[pid].cantidad_actual
                      < productos[pid].cantidad_actual

\* C5: the sweep run twice at the same clock value gives the quantities and
\* the rows that one run gives
C5_LimpiarIdempotente ==
    LET una == limpiar_reservas_expiradas(productos, pedidos, reloj)
        dos == limpiar_reservas_expiradas(una.productos, una.pedidos, reloj)
    IN  /\ dos.productos = una.productos
        /\ dos.pedidos = una.pedidos

\* C5 happens: the sweep has a stale reservation to cancel and stock to return
C5_Witness ==
    \E i \in expirados(pedidos, reloj) :
        /\ pedidos[i].cantidad > 0
        /\ pedidos[i].producto_id \in DOMAIN productos

\* C6: a sale of more units than the product holds is refused as
\* stock_insuficiente and changes neither the products nor the rows
C6_StockInsuficiente ==
    \A u \in UsuarioIds, pid \in ProductoIds, f \in VentaForm :
        LET v == realizar_venta(usuarios, productos, pedidos, reloj, u, pid, f)
            cantidad == int(form_get(f.cantidad, "1"))
        IN  (/\ pid \in DOMAIN productos
             /\ cantidad.ok
             /\ productos[pid].cantidad_actual < cantidad.v)
            => (/\ v.res = "stock_insuficiente"
                /\ v.productos = productos
                /\ v.pedidos = pedidos)

\* C6 happens: reservations have taken stock, and a sale form asks for more
\* than is left
C6_Witness ==
    /\ \E i \in 1..Len(pedidos) :
           pedidos[i].tipo = "venta" /\ pedidos[i].estado = "pendiente"
    /\ \E pid \in DOMAIN productos, f \in VentaForm :
           /\ int(form_get(f.cantidad, "1")).ok
           /\ 0 <= productos[pid].cantidad_actual
           /\ productos[pid].cantidad_actual < int(form_get(f.cantidad, "1")).v

\* C7: an accepted sale takes exactly its quantity from its product, appends
\* one pending sale row of that quantity and product, and changes no other
\* product and no earlier row
C7_VentaAceptada ==
    \A u \in UsuarioIds, pid \in ProductoIds, f \in VentaForm :
        LET v == realizar_venta(usuarios, productos, pedidos, reloj, u, pid, f)
            cantidad == int(form_get(f.cantidad, "1")).v
            n == Len(pedidos)
        IN  v.res = "ok" =>
                /\ DOMAIN v.productos = DOMAIN productos
                /\ v.productos[pid].cantidad_actual
                       = productos[pid].cantidad_actual - cantidad
                /\ v.productos[pid].stock_maximo = productos[pid].stock_maximo
                /\ \A q \in DOMAIN productos \ {pid} : v.productos[q] = productos[q]
                /\ Len(v.pedidos) = n + 1
                /\ \A i \in 1..n : v.pedidos[i] = pedidos[i]
                /\ v.pedidos[n + 1].tipo = "venta"
                /\ v.pedidos[n + 1].estado = "pendiente"
                /\ v.pedidos[n + 1].cantidad = cantidad
                /\ v.pedidos[n + 1].producto_id = pid

\* C7 happens: the last row is a reservation of several units, made while
\* another row and another product exist
C7_Witness ==
    /\ Len(pedidos) = MaxPedidos
    /\ DOMAIN productos = ProductoIds
    /\ pedidos[MaxPedidos].tipo = "venta"
    /\ pedidos[MaxPedidos].estado = "pendiente"
    /\ pedidos[MaxPedidos].cantidad > 1

\* C8: a sale either appends its row and takes its stock, or is refused (no
\* such product, too little stock, no valid client, a field not a number)
\* and leaves the products and the rows as they are
C8_VentaAtomica ==
    \A u \in UsuarioIds, pid \in ProductoIds, f \in VentaForm :
        LET v == realizar_venta(usuarios, productos, pedidos, reloj, u, pid, f)
        IN  IF v.res = "ok"
            THEN /\ Len(v.pedidos) = Len(pedidos) + 1
                 /\ v.productos =
                        restar_stock(productos, pid, v.pedidos[Len(v.pedidos)].cantidad)
            ELSE /\ v.res \in {"404", "500", "stock_insuficiente", "cliente_no_valido"}
                 /\ v.productos = productos
                 /\ v.pedidos = pedidos

\* C8 happens: in one state, with rows in the table, sale forms are refused
\* for each of the four reasons
C8_Witness ==
    /\ Len(pedidos) >= 1
    /\ \A razon \in {"404", "500", "stock_insuficiente", "cliente_no_valido"} :
           \E u \in UsuarioIds, pid \in ProductoIds, f \in VentaForm :
               realizar_venta(usuarios, productos, pedidos, reloj, u, pid, f).res
                   = razon

\* C9: confirmar_entrega by an admin on a pending sale row makes that row
\* completado and changes no product and no other row
C9_EntregaConfirmada ==
    \A u \in UsuarioIds, id \in 1..Len(pedidos) :
        (/\ usuarios[u].rol = "admin"
         /\ pedidos[id].tipo = "venta"
         /\ pedidos[id].estado = "pendiente")
        => LET r == confirmar_entrega(usuarios, productos, pedidos, u, id)
           IN  /\ r.res = "ok"
               /\ r.pedidos = [pedidos EXCEPT ![id].estado = "completado"]
               /\ r.productos = productos

\* C9 happens: one sale row has been delivered and another is still pending
C9_Witness ==
    /\ \E i \in 1..Len(pedidos) :
           pedidos[i].tipo = "venta" /\ pedidos[i].estado = "completado"
    /\ \E i \in 1..Len(pedidos) :
           /\ pedidos[i].tipo = "venta" /\ pedidos[i].estado = "pendiente"
           /\ pedidos[i].cantidad > 0

\* C10: confirmar_entrega on an id that is not a pending sale row answers
\* 404 and changes nothing
C10_SoloVentasPendientes ==
    \A u \in UsuarioIds, id \in PedidoIds :
        (/\ usuarios[u].rol = "admin"
         /\ ~(/\ id \in 1..Len(pedidos)
              /\ pedidos[id].tipo = "venta"
              /\ pedidos[id].estado = "pendiente"))
        => LET r == confirmar_entrega(usuarios, productos, pedidos, u, id)
           IN  /\ r.res = "404"
               /\ r.pedidos = pedidos
               /\ r.productos = productos

\* C11: a cancellation asked by a user who is neither admin nor the owner of
\* the row is refused and changes no row and no product
C11_CancelarSoloDuenoOAdmin ==
    \A u \in UsuarioIds, id \in 1..Len(pedidos) :
        (usuarios[u].rol # "admin" /\ pedidos[id].usuario_id # u)
        => LET c == cancelar_reserva(usuarios, productos, pedidos, u, id)
           IN  /\ c.res = "denegado"
               /\ c.pedidos = pedidos
               /\ c.productos = productos

\* C11 happens: a client asks to cancel a pending reservation of another user
C11_Witness ==
    \E u \in UsuarioIds, id \in 1..Len(pedidos) :
        /\ usuarios[u].rol # "admin"
        /\ pedidos[id].usuario_id # u
        /\ pedidos[id].tipo = "venta"
        /\ pedidos[id].estado = "pendiente"
        /\ pedidos[id].cantidad > 0

\* C12: a cancellation of a row that is not pending gives no error and
\* changes no row and no product, so a reservation cancelled twice gets its
\* stock back once
C12_CancelarNoPendiente ==
    \A u \in UsuarioIds, id \in 1..Len(pedidos) :
        LET c == cancelar_reserva(usuarios, productos, pedidos, u, id)
            permitido == usuarios[u].rol = "admin" \/ pedidos[id].usuario_id = u
        IN  /\ pedidos[id].estado # "pendiente" =>
                /\ c.pedidos = pedidos
                /\ c.productos = productos
                /\ permitido => c.res = "sin_efecto"
            /\ (pedidos[id].estado = "pendiente" /\ permitido) =>
                LET cc == cancelar_reserva(usuarios, c.productos, c.pedidos, u, id)
                IN  /\ cc.res = "sin_efecto"
                    /\ cc.pedidos = c.pedidos
                    /\ cc.productos = c.productos

\* C12 happens: a cancelled reservation of some units is there to be
\* cancelled again, next to one still pending
C12_Witness ==
    /\ \E id \in 1..Len(pedidos) :
           /\ pedidos[id].tipo = "venta"
           /\ pedidos[id].estado = "cancelado"
           /\ pedidos[id].cantidad > 0
    /\ \E id \in 1..Len(pedidos) :
           pedidos[id].tipo = "venta" /\ pedidos[id].estado = "pendiente"

\* C13: a purchase row is never cancelled or otherwise moved: no step
\* changes the estado it was created with
C13_CompraIntocable ==
    [][\A i \in 1..Len(pedidos) :
          pedidos[i].tipo = "compra" => pedidos'[i].estado = pedidos[i].estado]_vars

\* C14: the sweep cancels exactly the pending sale rows older than 48 hours
\* and returns their units to their products; every other row is untouched
C14_LimpiarExactamente ==
    LET r == limpiar_reservas_expiradas(productos, pedidos, reloj)
        vencida(i) == /\ pedidos[i].tipo = "venta"
                      /\ pedidos[i].estado = "pendiente"
                      /\ now(reloj) - pedidos[i].fecha > EXPIRACION_HORAS
    IN  /\ Len(r.pedidos) = Len(pedidos)
        /\ DOMAIN r.productos = DOMAIN productos
        /\ \A i \in 1..Len(pedidos) :
               IF vencida(i)
               THEN r.pedidos[i] = [pedidos[i] EXCEPT !.estado = "cancelado"]
               ELSE r.pedidos[i] = pedidos[i]
        /\ \A p \in DOMAIN productos :
               /\ r.productos[p].stock_maximo = productos[p].stock_maximo
               /\ r.productos[p].cantidad_actual
                      = productos[p].cantidad_actual
                        + suma_cantidad(pedidos,
                              {i \in 1..Len(pedidos) :
                                  vencida(i) /\ pedidos[i].producto_id = p})

\* C14 happens: the sweep meets a reservation older than 48 hours and one
\* that is exactly 48 hours old
C14_Witness ==
    /\ \E i \in 1..Len(pedidos) :
           /\ pedidos[i].tipo = "venta" /\ pedidos[i].estado = "pendiente"
           /\ pedidos[i].cantidad > 0
           /\ now(reloj) - pedidos[i].fecha > EXPIRACION_HORAS
    /\ \E i \in 1..Len(pedidos) :
           /\ pedidos[i].tipo = "venta" /\ pedidos[i].estado = "pendiente"
           /\ now(reloj) - pedidos[i].fecha = EXPIRACION_HORAS

\* C15: a sweep is committed whole: the step of a view that sweeps leaves
\* every stale reservation cancelled, and each product gains exactly the
\* units of its rows that the step cancelled
C15_LimpiezaEnBloque ==
    [][(PanelAdminReservas \/ Dashboard) =>
          LET ex == expirados(pedidos, reloj)
              canceladas(p) ==
                  {i \in 1..Len(pedidos) :
                      /\ pedidos[i].producto_id = p
                      /\ pedidos[i].estado # "cancelado"
                      /\ pedidos'[i].estado = "cancelado"}
          IN  /\ \A i \in ex : pedidos'[i].estado = "cancelado"
              /\ \A p \in DOMAIN productos :
                     productos'[p].cantidad_actual
                         = productos[p].cantidad_actual
                           + suma_cantidad(pedidos, canceladas(p))]_vars

\* C15 happens: two stale reservations wait for one sweep
C15_Witness ==
    /\ Cardinality(expirados(pedidos, reloj)) >= 2
    /\ \A i \in expirados(pedidos, reloj) :
           /\ pedidos[i].cantidad > 0
           /\ pedidos[i].producto_id \in DOMAIN productos

\* C17: a restock of zero or fewer units is refused as not positive, one
\* that would lift the stock above stock_maximo is refused as exceeding the
\* maximum, and neither changes a product or adds a row
C17_ReabastecerRechazado ==
    \A u \in UsuarioIds, pid \in DOMAIN productos, campo \in CompraForm :
        LET r == reabastecer_producto(usuarios, productos, pedidos, reloj,
                                      u, pid, campo)
            cantidad == int(form_get(campo, "0"))
        IN  (usuarios[u].rol = "admin" /\ cantidad.ok) =>
                /\ cantidad.v <= 0 =>
                       /\ r.res = "cantidad_no_positiva"
                       /\ r.productos = productos
                       /\ r.pedidos = pedidos
                /\ (/\ cantidad.v > 0
                    /\ productos[pid].cantidad_actual + cantidad.v
                           > productos[pid].stock_maximo) =>
                       /\ r.res = "excede_maximo"
                       /\ r.productos = productos
                       /\ r.pedidos = pedidos

\* C17 happens: a product has room for one unit more, and restock forms ask
\* for two units and for none
C17_Witness ==
    \E pid \in DOMAIN productos :
        /\ 0 <= productos[pid].cantidad_actual
        /\ productos[pid].cantidad_actual < productos[pid].stock_maximo
        /\ \E campo \in CompraForm :
               /\ int(form_get(campo, "0")).ok
               /\ int(form_get(campo, "0")).v > 0
               /\ int(form_get(campo, "0")).v <= productos[pid].stock_maximo
               /\ productos[pid].cantidad_actual + int(form_get(campo, "0")).v
                      > productos[pid].stock_maximo
        /\ \E campo \in CompraForm :
               int(form_get(campo, "0")).ok /\ int(form_get(campo, "0")).v <= 0

\* C16: every listing of reservations is rendered after the sweep: the rows
\* shown by the admin panel, by the dashboard and by a client's own list
\* hold no pending sale older than 48 hours
C16_ListadosSinVencidas ==
    \A u \in UsuarioIds :
        LET vencida(peds, i) == /\ peds[i].tipo = "venta"
                                /\ peds[i].estado = "pendiente"
                                /\ now(reloj) - peds[i].fecha > EXPIRACION_HORAS
            panel == panel_admin_reservas(usuarios, productos, pedidos, reloj, u)
            balance == dashboard(usuarios, productos, pedidos, reloj, u)
        IN  /\ \A i \in panel.reservas : ~vencida(panel.pedidos, i)
            /\ \A i \in balance.ventas_reales : ~vencida(balance.pedidos, i)
            /\ \A i \in pedidos_clientes(pedidos, u) : ~vencida(pedidos, i)

\* C18: an accepted restock adds exactly its quantity to the product and
\* appends one purchase row of that product and quantity, at the product's
\* precio_coste and precio_venta, with total_venta 0
C18_ReabastecerAceptado ==
    \A u \in UsuarioIds, pid \in ProductoIds, campo \in CompraForm :
        LET r == reabastecer_producto(usuarios, productos, pedidos, reloj,
                                      u, pid, campo)
            cantidad == int(form_get(campo, "0")).v
            n == Len(pedidos)
        IN  IF r.res = "ok"
            THEN /\ r.productos =
                        [productos EXCEPT ![pid].cantidad_actual = @ + cantidad]
                 /\ Len(r.pedidos) = n + 1
                 /\ \A i \in 1..n : r.pedidos[i] = pedidos[i]
                 /\ r.pedidos[n + 1].tipo = "compra"
                 /\ r.pedidos[n + 1].producto_id = pid
                 /\ r.pedidos[n + 1].cantidad = cantidad
                 /\ r.pedidos[n + 1].precio_unidad_coste = productos[pid].precio_coste
                 /\ r.pedidos[n + 1].precio_unidad_venta = productos[pid].precio_venta
                 /\ r.pedidos[n + 1].total_venta = 0
            ELSE r.productos = productos /\ r.pedidos = pedidos

\* C18 happens: units were sold from product 1 and a restock has been booked
\* for it
C18_Witness ==
    \E i \in 1..Len(pedidos) :
        /\ pedidos[i].tipo = "compra"
        /\ pedidos[i].producto_id = 1
        /\ pedidos[i].cantidad > 0
        /\ pedidos[i].precio_unidad_venta > 0
        /\ i > 1

\* C19: a product created with stock gets one purchase row of that stock,
\* with total_venta 0, for the new product; one created empty gets no row;
\* a creation refused (negative price or quantity, stock above the maximum,
\* tax out of range, a field not a number) adds no product and no row
C19_NuevoProducto ==
    \A u \in UsuarioIds, f \in ProductoForm :
        LET r == nuevo_producto(usuarios, productos, pedidos, reloj, u, f)
            n == Len(pedidos)
            nuevos == DOMAIN r.productos \ DOMAIN productos
            stock == int(f.cantidad_actual)
            maximo == int(f.stock_maximo)
            iva == float(form_get(f.iva, "21.0"))
            rechazable ==
                \/ usuarios[u].rol # "admin"
                \/ ~float(f.precio_coste).ok \/ float(f.precio_coste).v < 0
                \/ ~float(f.precio_venta).ok \/ float(f.precio_venta).v < 0
                \/ ~iva.ok \/ iva.v < 0 \/ iva.v > 100
                \/ ~stock.ok \/ ~maximo.ok
                \/ stock.v < 0 \/ maximo.v < 0 \/ stock.v > maximo.v
        IN  /\ rechazable <=> r.res # "ok"
            /\ r.res # "ok" => (r.productos = productos /\ r.pedidos = pedidos)
            /\ r.res = "ok" =>
                   /\ Cardinality(nuevos) = 1
                   /\ \A p \in DOMAIN productos : r.productos[p] = productos[p]
                   /\ \A p \in nuevos :
                          /\ r.productos[p].cantidad_actual = stock.v
                          /\ IF stock.v > 0
                             THEN /\ Len(r.pedidos) = n + 1
                                  /\ \A i \in 1..n : r.pedidos[i] = pedidos[i]
                                  /\ r.pedidos[n + 1].tipo = "compra"
                                  /\ r.pedidos[n + 1].cantidad = stock.v
                                  /\ r.pedidos[n + 1].total_venta = 0
                                  /\ r.pedidos[n + 1].producto_id = p
                             ELSE r.pedidos = pedidos

\* C19 happens: product 2 has been created with stock and has its purchase
\* row
C19_Witness ==
    /\ 2 \in DOMAIN productos
    /\ \E i \in 1..Len(pedidos) :
           /\ pedidos[i].tipo = "compra"
           /\ pedidos[i].producto_id = 2
           /\ pedidos[i].cantidad = MaxStock
           /\ pedidos[i].total_venta = 0

\* C20: the income of the balance is the sum of total_venta over the
\* completed sale rows: pending and cancelled sales add nothing to it, and
\* it changes only in a step of confirmar_entrega that completes a sale row,
\* by that row's total_venta
C20_IngresosSoloCompletados ==
    [][LET ingresos(prods, peds) ==
               dashboard(usuarios, prods, peds, reloj, 1).total_ingresos
           ventas(peds, estados) ==
               {i \in 1..Len(peds) :
                   peds[i].tipo = "venta" /\ peds[i].estado \in estados}
           antes == ingresos(productos, pedidos)
           despues == ingresos(productos', pedidos')
       IN  /\ despues
                  = suma_total_venta(pedidos',
                        ventas(pedidos', {"pendiente", "completado", "cancelado"}))
                    - suma_total_venta(pedidos', ventas(pedidos', {"pendiente"}))
                    - suma_total_venta(pedidos', ventas(pedidos', {"cancelado"}))
           /\ despues # antes =>
                  /\ ConfirmarEntrega
                  /\ \E i \in 1..Len(pedidos) :
                         /\ pedidos[i].tipo = "venta"
                         /\ pedidos[i].estado # "completado"
                         /\ pedidos'[i].estado = "completado"
                         /\ despues = antes + pedidos[i].total_venta]_vars

\* C20 happens: one sale has been delivered and another, of some value, has
\* been cancelled
C20_Witness ==
    /\ \E i \in 1..Len(pedidos) :
           /\ pedidos[i].tipo = "venta" /\ pedidos[i].estado = "completado"
           /\ pedidos[i].total_venta > 0
    /\ \E i \in 1..Len(pedidos) :
           /\ pedidos[i].tipo = "venta" /\ pedidos[i].estado = "cancelado"
           /\ pedidos[i].total_venta > 0

C22_ConfirmarTodoONada ==
    \A u \in UsuariosCarrito :
        LET r == confirmar_carrito(productos, pedidos, carrito[u], reloj, u)
        IN  (\E p \in DOMAIN carrito[u] :
                 /\ p \in DOMAIN productos
                 /\ carrito[u][p] > productos[p].cantidad_actual)
            => /\ r.res # "ok"
               /\ r.productos = productos
               /\ r.pedidos = pedidos
               /\ r.carrito = carrito[u]

\* C22 happens: a cart whose first line can be served and whose second line
\* asks for more than is left
C22_Witness ==
    \E u \in UsuariosCarrito :
        \E p \in DOMAIN carrito[u], q \in DOMAIN carrito[u] :
            /\ p < q
            /\ carrito[u][p] > 0
            /\ carrito[u][p] <= productos[p].cantidad_actual
            /\ carrito[u][q] > productos[q].cantidad_actual
            /\ confirmar_carrito(productos, pedidos, carrito[u], reloj, u).res
                   = "stock_insuficiente"

RECURSIVE ventas_del_carrito(_, _, _, _, _, _, _)
\* realizar_venta called once for each line of carr in ids, in key order, by
\* user u for themselves, with the default tax and no discount
ventas_del_carrito(us, prods, peds, carr, ids, d, u) ==
    IF ids = {} THEN [productos |-> prods, pedidos |-> peds]
    ELSE LET p == CHOOSE q \in ids : \A r \in ids : q <= r
             v == realizar_venta(us, prods, peds, d, u, p,
                                 [cantidad |-> ToString(carr[p]), descuento |-> "",
                                  iva |-> "", cliente_id |-> ""])
         IN  ventas_del_carrito(us, v.productos, v.pedidos, carr, ids \ {p}, d, u)

\* C23: a checkout that succeeds leaves the products and the pedido rows that
\* one realizar_venta per cart line would leave (same quantity, unit prices,
\* total, tax, discount and owner), and an empty cart
C23_ConfirmarComoVentas ==
    \A u \in UsuariosCarrito :
        LET r == confirmar_carrito(productos, pedidos, carrito[u], reloj, u)
            v == ventas_del_carrito(usuarios, productos, pedidos, carrito[u],
                                    DOMAIN carrito[u], reloj, u)
        IN  r.res = "ok" =>
                /\ r.productos = v.productos
                /\ r.pedidos = v.pedidos
                /\ DOMAIN r.carrito = {}

\* C24: confirmar_entrega, reabastecer_producto, the creation, edition and
\* deletion of a product, the creation, edition and deletion of a supplier,
\* cambiar_estado and eliminar_usuario, asked for by a caller who is not
\* logged in or whose rol is not admin, are denied and return the product,
\* pedido, supplier and user tables as they were
C24_SoloAdmin ==
    \A u \in Actores :
        ~(u \in DOMAIN usuarios /\ usuarios[u].rol = "admin") =>
            /\ \A id \in PedidoIds :
                   LET r == confirmar_entrega(usuarios, productos, pedidos, u, id)
                   IN  /\ r.res = "denegado"
                       /\ r.productos = productos /\ r.pedidos = pedidos
            /\ \A pid \in ProductoIds, campo \in CompraForm :
                   LET r == reabastecer_producto(usuarios, productos, pedidos,
                                                 reloj, u, pid, campo)
                   IN  /\ r.res = "denegado"
                       /\ r.productos = productos /\ r.pedidos = pedidos
            /\ \A f \in ProductoForm :
                   LET r == nuevo_producto(usuarios, productos, pedidos, reloj, u, f)
                   IN  /\ r.res = "denegado"
                       /\ r.productos = productos /\ r.pedidos = pedidos
            /\ \A pid \in ProductoIds, f \in EdicionForm \cup EdicionProveedorForm :
                   LET r == editar_producto(usuarios, productos, u, pid, f)
                   IN  r.res = "denegado" /\ r.productos = productos
            /\ \A pid \in ProductoIds :
                   LET r == eliminar_producto(usuarios, productos, pedidos, u, pid)
                   IN  r.res = "denegado" /\ r.productos = productos
            /\ \A f \in ProveedorForm :
                   LET r == nuevo_proveedor(usuarios, proveedores, u, f)
                   IN  r.res = "denegado" /\ r.proveedores = proveedores
            /\ \A id \in ProveedorIds, f \in ProveedorForm :
                   LET r == editar_proveedor(usuarios, proveedores, u, id, f)
                   IN  r.res = "denegado" /\ r.proveedores = proveedores
            /\ \A id \in ProveedorIds :
                   LET r == eliminar_proveedor(usuarios, proveedores, productos, u, id)
                   IN  r.res = "denegado" /\ r.proveedores = proveedores
            /\ \A id \in UsuarioIds :
                   /\ LET r == cambiar_estado(usuarios, u, id)
                      IN  r.res = "denegado" /\ r.usuarios = usuarios
                   /\ LET r == eliminar_usuario(usuarios, pedidos, u, id)
                      IN  r.res = "denegado" /\ r.usuarios = usuarios

\* C24 happens: a supplier without products and client 3 are there; the admin
\* could delete either, and client 2 and the caller with no session are
\* turned away
C24_Witness ==
    /\ 3 \in DOMAIN usuarios
    /\ eliminar_usuario(usuarios, pedidos, 1, 3).res = "ok"
    /\ eliminar_usuario(usuarios, pedidos, 2, 3).res = "denegado"
    /\ \E id \in DOMAIN proveedores :
           /\ eliminar_proveedor(usuarios, proveedores, productos, 1, id).res = "ok"
           /\ eliminar_proveedor(usuarios, proveedores, productos, Anonimo, id).res
                  = "denegado"

\* C25: the deletion of a supplier that has a product is refused and leaves
\* the supplier table as it was, and whatever the deletion asked for, every
\* product whose proveedor_id names an existing supplier still names one
\* after it
C25_ProveedorConProductos ==
    \A u \in Actores, id \in ProveedorIds :
        LET r == eliminar_proveedor(usuarios, proveedores, productos, u, id)
        IN  /\ (id \in DOMAIN proveedores /\ productos_de(productos, id) # {}) =>
                   /\ r.res # "ok"
                   /\ r.proveedores = proveedores
            /\ \A p \in DOMAIN productos :
                   productos[p].proveedor_id \in DOMAIN proveedores =>
                       productos[p].proveedor_id \in DOMAIN r.proveedores

\* C25 happens: the admin asks to delete a supplier that has a product, while
\* another supplier, with none, can be deleted
C25_Witness ==
    \E id \in DOMAIN proveedores, otro \in DOMAIN proveedores :
        /\ productos_de(productos, id) # {}
        /\ eliminar_proveedor(usuarios, proveedores, productos, 1, id).res
               = "tiene_productos"
        /\ eliminar_proveedor(usuarios, proveedores, productos, 1, otro).res = "ok"

\* C26: the admin's request to deactivate or delete their own account is
\* refused and leaves the user table as it was, and the same request for
\* another user takes effect: the flag is flipped, the row is gone
C26_NoSobreUnoMismo ==
    \A u \in DOMAIN usuarios, id \in DOMAIN usuarios :
        usuarios[u].rol = "admin" =>
            LET c == cambiar_estado(usuarios, u, id)
                e == eliminar_usuario(usuarios, pedidos, u, id)
            IN  IF id = u
                THEN /\ c.res = "propia_cuenta" /\ c.usuarios = usuarios
                     /\ e.res = "propia_cuenta" /\ e.usuarios = usuarios
                ELSE /\ c.res = "ok"
                     /\ c.usuarios = [usuarios EXCEPT ![id].activo = ~@]
                     /\ e.res = "ok"
                     /\ id \notin DOMAIN e.usuarios

\* The percentage p as realizar_venta should record it: itself when within
\* 0..100, else the value defecto
acotado(p, defecto) == IF p < 0 \/ p > 100 THEN defecto ELSE p

\* C27: every pedido row has its discount and its tax within 0..100, and an
\* accepted sale records a posted discount outside 0..100 as 0, a posted tax
\* outside 0..100 as 21, and a posted value within the range as it is
C27_PorcentajesAcotados ==
    /\ \A i \in 1..Len(pedidos) :
           /\ 0 <= pedidos[i].descuento_aplicado
           /\ pedidos[i].descuento_aplicado <= 100
           /\ 0 <= pedidos[i].iva_aplicado
           /\ pedidos[i].iva_aplicado <= 100
    /\ \A u \in ActoresAdmin, pid \in ProductoIds, f \in VentaFormPrecio :
           LET r == realizar_venta(usuarios, productos, pedidos, reloj, u, pid, f)
               fila == r.pedidos[Len(r.pedidos)]
           IN  r.res = "ok" =>
                   /\ Len(r.pedidos) = Len(pedidos) + 1
                   /\ fila.descuento_aplicado
                          = acotado(float(form_get(f.descuento, "0")).v, 0)
                   /\ fila.iva_aplicado
                          = acotado(float(form_get(f.iva, "21.0")).v, IVA_DEFECTO)

\* C27 happens: a sale at 10% discount and 10% tax is on record, and a sale
\* posted with discount 101 and tax -1 is accepted
C27_Witness ==
    /\ \E i \in 1..Len(pedidos) :
           pedidos[i].descuento_aplicado = 10 /\ pedidos[i].iva_aplicado = 10
    /\ \E u \in ActoresAdmin, pid \in ProductoIds, f \in VentaFormPrecio :
           /\ f.descuento = "101" /\ f.iva = "-1"
           /\ realizar_venta(usuarios, productos, pedidos, reloj, u, pid, f).res = "ok"

\* An amount rounded to two decimals, half away from zero
redondear(x) == ((x + Escala \div 200) \div (Escala \div 100)) * (Escala \div 100)

\* C28: an accepted sale records the unit price round(round(round(precio_venta
\* / 1.21) * (1 + tax/100)) * (1 - discount/100)) and the total round(unit *
\* quantity), each rounding to two decimals, and leaves the product's
\* precio_venta as it was
C28_PrecioRedondeado ==
    \A u \in ActoresAdmin, pid \in ProductoIds, f \in VentaFormPrecio :
        LET r == realizar_venta(usuarios, productos, pedidos, reloj, u, pid, f)
            fila == r.pedidos[Len(r.pedidos)]
            descuento == acotado(float(form_get(f.descuento, "0")).v, 0)
            iva == acotado(float(form_get(f.iva, "21.0")).v, IVA_DEFECTO)
            base == redondear(sin_iva_defecto(productos[pid].precio_venta))
            con_nuevo_iva == redondear(con_iva(base, iva))
            unidad == redondear(con_descuento(con_nuevo_iva, descuento))
        IN  r.res = "ok" =>
                /\ fila.precio_unidad_venta = unidad
                /\ fila.total_venta = redondear(unidad * fila.cantidad)
                /\ r.productos[pid].precio_venta = productos[pid].precio_venta

\* The units of product p that its sale rows in the given estados hold
unidades_en(p, estados) ==
    suma_cantidad(pedidos, {i \in 1..Len(pedidos) :
                               /\ pedidos[i].tipo = "venta"
                               /\ pedidos[i].producto_id = p
                               /\ pedidos[i].estado \in estados})

\* C29: with cancellations, sweeps and deliveries served in parallel, the
\* units of a reservation come back to the shelf at most once, and no sale is
\* completado with its units back on the shelf: each product holds its MaxStock
\* units less those of its pending and delivered sales
C29_DevueltoUnaVez ==
    \A p \in DOMAIN productos :
        /\ productos[p].cantidad_actual + unidades_en(p, {"pendiente"}) <= MaxStock
        /\ productos[p].cantidad_actual
               + unidades_en(p, {"pendiente", "completado"}) = MaxStock

\* Pedido row id is a sale reserved more than 48 hours ago and still pendiente
pendiente_vencida(id) ==
    /\ id <= Len(pedidos)
    /\ pedidos[id].tipo = "venta"
    /\ pedidos[id].estado = "pendiente"
    /\ pedidos[id].fecha < now(reloj) - EXPIRACION_HORAS

\* C30: a pending sale leaves pendiente only in a step of confirmar_entrega,
\* cancelar_reserva, /admin/reservas or /dashboard, so while none of them is
\* served (time passing included) it stays pendiente and its product's stock
\* is not given back; and when the two views keep being loaded, every pending
\* sale older than 48 hours ends up cancelado or completado
C30_CaducidadPerezosa ==
    /\ [][\A i \in 1..Len(pedidos) :
             (/\ pedidos[i].tipo = "venta"
              /\ pedidos[i].estado = "pendiente"
              /\ pedidos'[i].estado # "pendiente")
                 => (ConfirmarEntrega \/ CancelarReserva
                        \/ PanelAdminReservas \/ Dashboard)]_vars
    /\ [][Tick => UNCHANGED <<productos, pedidos>>]_vars
    /\ \A id \in PedidoIds :
           pendiente_vencida(id)
               ~> (/\ id <= Len(pedidos)
                   /\ pedidos[id].estado \in {"cancelado", "completado"})

\* C30 happens: the clock has reached MaxReloj, a sale reserved at 0 is
\* cancelado with its units back and a later one of the same product is still
\* pendiente
C30_Witness ==
    /\ reloj = MaxReloj
    /\ \E i, j \in 1..Len(pedidos) :
           /\ pedidos[i].tipo = "venta"
           /\ pedidos[i].fecha < now(reloj) - EXPIRACION_HORAS
           /\ pedidos[i].estado = "cancelado"
           /\ pedidos[j].tipo = "venta"
           /\ pedidos[j].producto_id = pedidos[i].producto_id
           /\ pedidos[j].fecha >= now(reloj) - EXPIRACION_HORAS
           /\ pedidos[j].estado = "pendiente"
           /\ pedidos[j].producto_id \in DOMAIN productos
           /\ productos[pedidos[j].producto_id].cantidad_actual
                  = MaxStock - pedidos[j].cantidad

\* The units of product p that its purchase rows brought in
unidades_compradas(p) ==
    suma_cantidad(pedidos, {i \in 1..Len(pedidos) :
                               /\ pedidos[i].tipo = "compra"
                               /\ pedidos[i].producto_id = p})

\* C31: a product made by nuevo_producto and never edited (every product but
\* product 1, whose stock Init sets through the edit form) holds the units of
\* its purchase rows less those of its pending and delivered sales
C31_ConservacionDeUnidades ==
    \A p \in DOMAIN productos \ {1} :
        productos[p].cantidad_actual
            = unidades_compradas(p) - unidades_en(p, {"pendiente", "completado"})

\* C32: a sale is of one unit or more: no request leaves a sale row whose
\* cantidad is zero or negative, which would be units added to the stock
C32_VentasPositivas ==
    \A i \in 1..Len(pedidos) :
        pedidos[i].tipo = "venta" => pedidos[i].cantidad >= 1

\* The carts a user may hold: one unit of each product of a set of them
CarritosDe(prods) ==
    {[p \in S |-> 1] : S \in SUBSET DOMAIN prods \ {{}}}

\* C33: a sale belongs to the user who asked for it, unless an admin names an
\* existing, active client, to whom it then belongs; an admin's sale for
\* anyone else is refused with nothing changed; rows made at checkout belong
\* to the user; and a user who is not admin cancels no row of another user
C33_PropiedadDeLaVenta ==
    /\ \A u \in UsuarioIds, pid \in ProductoIds, f \in VentaForm :
           LET r == realizar_venta(usuarios, productos, pedidos, reloj, u, pid, f)
               nuevo == r.pedidos[Len(r.pedidos)]
               para_cliente == usuarios[u].rol = "admin" /\ f.cliente_id # ""
           IN  /\ r.res = "ok" =>
                      /\ Len(r.pedidos) = Len(pedidos) + 1
                      /\ SubSeq(r.pedidos, 1, Len(pedidos)) = pedidos
                      /\ ~para_cliente => nuevo.usuario_id = u
                      /\ para_cliente =>
                             /\ ToString(nuevo.usuario_id) = f.cliente_id
                             /\ nuevo.usuario_id \in DOMAIN usuarios
                             /\ usuarios[nuevo.usuario_id].rol = "cliente"
                             /\ usuarios[nuevo.usuario_id].activo
               /\ r.res # "ok" =>
                      r.productos = productos /\ r.pedidos = pedidos
               /\ (/\ para_cliente
                   /\ \A c \in DOMAIN usuarios :
                          ToString(c) = f.cliente_id =>
                              usuarios[c].rol # "cliente" \/ ~usuarios[c].activo)
                      => r.res # "ok"
    /\ \A u \in UsuarioIds, carr \in CarritosDe(productos) :
           LET r == confirmar_carrito(productos, pedidos, carr, reloj, u)
           IN  /\ SubSeq(r.pedidos, 1, Len(pedidos)) = pedidos
               /\ \A i \in (Len(pedidos) + 1)..Len(r.pedidos) :
                      r.pedidos[i].usuario_id = u
    /\ \A u \in UsuarioIds, id \in PedidoIds :
           LET r == cancelar_reserva(usuarios, productos, pedidos, u, id)
           IN  (/\ usuarios[u].rol # "admin"
                /\ id <= Len(pedidos)
                /\ pedidos[id].usuario_id # u)
                   => r.productos = productos /\ r.pedidos = pedidos

\* C33 happens: inactive client 3 and client 2 each own a pending sale, and
\* there is stock left for a checkout
C33_Witness ==
    /\ \E i, j \in 1..Len(pedidos) :
           /\ pedidos[i].tipo = "venta" /\ pedidos[i].usuario_id = 3
           /\ pedidos[j].tipo = "venta" /\ pedidos[j].usuario_id = 2
           /\ pedidos[i].estado = "pendiente" /\ pedidos[j].estado = "pendiente"
    /\ \E p \in DOMAIN productos : productos[p].cantidad_actual >= 1

=============================================================================
